---------------------------- MODULE Spec2Model ----------------------------
(***************************************************************************)
(* Verification model of PyTECGg's geometric core: the Kepler solver, the  *)
(* Keplerian and GLONASS orbit propagators and the ionospheric pierce      *)
(* point (IPP) geometry.                                                   *)
(*                                                                         *)
(* Numbers.  The Python code computes in binary64.  The model computes in  *)
(* integers:                                                               *)
(*   - lengths are in model units of about 1000 km, so that every square   *)
(*     and product stays below 2^31;                                       *)
(*   - the pierce point geometry is computed exactly, in the quadratic     *)
(*     field Q(sqrt(disc)): a value (p + q*sqrt(D))/r is the record        *)
(*     [p, q, D, r], and comparisons are decided exactly;                  *)
(*   - NaN is an explicit value with numpy's propagation rules.            *)
(***************************************************************************)
EXTENDS Integers, Sequences, FiniteSets, TLC

VARIABLES
    pc,         \* position of the call in progress
    ipp_in,     \* calculate_ipp: arguments
    ipp_loc,    \* calculate_ipp: locals at return (mask, t, idx_out, x_ipp..)
    ipp_ret,    \* calculate_ipp: returned arrays (lat_ipp, lon_ipp, azi, ele)
    kep_in,     \* kepler: arguments e, mk, tol
    e_prev,     \* kepler: local e_prev
    e_curr,     \* kepler: local e_curr, the value returned
    kep_n,      \* kepler: executions of the loop body so far (saturating)
    anom_in,    \* _compute_anomalies: arguments ecc, M0, n, tk
    anom_ret,   \* _compute_anomalies: returned Mk, Ek, vk
    glo_in,     \* glonass_satellite_coordinates: variant, record, delta_seconds
    glo_ret,    \* glonass_satellite_coordinates: ecef_pos, aux, locals
    sc_in,      \* positions.py: the function called (fn) and its arguments
    sc_ret      \* positions.py: exception, returned values, warning, steps run

ipp_vars == <<ipp_in, ipp_loc, ipp_ret>>

kep_vars == <<kep_in, e_prev, e_curr, kep_n>>

anom_vars == <<anom_in, anom_ret>>

glo_vars == <<glo_in, glo_ret>>

sc_vars == <<sc_in, sc_ret>>

vars == <<pc, ipp_vars, kep_vars, anom_vars, glo_vars, sc_vars>>

---------------------------------------------------------------------------
(* Bounds of the model                                                     *)

\* largest number of satellite rows in one vectorised calculate_ipp call
MaxSats == 2

\* angles of the orbit code are in fine units, Scale of them to the radian
Scale == 1024

\* spacing, in fine units, of the values the sum mk + e*sin(E) can take
\* (the spacing of binary64 numbers at the magnitude of E)
Ulp == 4

\* loop executions counted by kep_n before it saturates
MaxCount == 3

\* iterations of kepler followed inside _compute_anomalies
MaxIter == 40

\* longest step, in seconds, of the integrator standing for RK45
MaxStep == 150

\* most required keys that one record lacks or holds as None
MaxMissing == 2

---------------------------------------------------------------------------
(* Integer helpers                                                         *)

Abs(x) == IF x < 0 THEN -x ELSE x

Sign(x) == IF x > 0 THEN 1 ELSE IF x < 0 THEN -1 ELSE 0

Min2(x, y) == IF x <= y THEN x ELSE y

Max2(x, y) == IF x >= y THEN x ELSE y

\* x / y rounded to the nearest integer, halves away from zero (y > 0)
RoundDiv(x, y) == IF x >= 0 THEN (2 * x + y) \div (2 * y)
                  ELSE -((2 * (-x) + y) \div (2 * y))

RECURSIVE IsqrtB(_, _, _)
IsqrtB(n, lo, hi) ==
    IF lo >= hi THEN lo
    ELSE IF ((lo + hi + 1) \div 2) * ((lo + hi + 1) \div 2) <= n
         THEN IsqrtB(n, (lo + hi + 1) \div 2, hi)
         ELSE IsqrtB(n, lo, (lo + hi + 1) \div 2 - 1)

\* floor of the square root of n >= 0 (n < 2^30)
Isqrt(n) == IsqrtB(n, 0, Min2(n, 32767))

---------------------------------------------------------------------------
(* binary64 values that may be NaN                                         *)

NaN == [isnan |-> TRUE, v |-> 0]

F(x) == [isnan |-> FALSE, v |-> x]

IsNaN(x) == x.isnan

FAdd(x, y) == IF x.isnan \/ y.isnan THEN NaN ELSE F(x.v + y.v)

FSub(x, y) == IF x.isnan \/ y.isnan THEN NaN ELSE F(x.v - y.v)

FMul(x, y) == IF x.isnan \/ y.isnan THEN NaN ELSE F(x.v * y.v)

\* x >= y; every comparison with NaN is False
FGe(x, y) == ~x.isnan /\ ~y.isnan /\ x.v >= y.v

---------------------------------------------------------------------------
(* Exact values (p + q*sqrt(D)) / r with r > 0, and NaN                     *)

SNaN == [isnan |-> TRUE, p |-> 0, q |-> 0, D |-> 0, r |-> 1]

Surd(p, q, D, r) == [isnan |-> FALSE, p |-> p, q |-> q, D |-> D, r |-> r]

\* sign of p + q*sqrt(D), D >= 0
SurdSign(p, q, D) ==
    IF q = 0 \/ D = 0 THEN Sign(p)
    ELSE IF p >= 0 /\ q > 0 THEN 1
    ELSE IF p <= 0 /\ q < 0 THEN -1
    ELSE IF p > 0 THEN Sign(p * p - q * q * D)
    ELSE Sign(q * q * D - p * p)

\* 0 <= s, s <= 1, s <= u for values s, u over the same D and r
SurdGe0(s) == ~s.isnan /\ SurdSign(s.p, s.q, s.D) >= 0

SurdLe1(s) == ~s.isnan /\ SurdSign(s.p - s.r, s.q, s.D) <= 0

SurdLe(s, u) == ~s.isnan /\ ~u.isnan /\ SurdSign(s.p - u.p, s.q - u.q, s.D) <= 0

\* x + d * s for integers x, d
SurdAffine(x, d, s) == Surd(x * s.r + d * s.p, d * s.q, s.D, s.r)

\* (p + q*sqrt(D)) / r as numpy divides: x/0 is NaN or +-inf, and neither
\* passes a range test nor is told apart from NaN by the callers below
SurdDiv(p, q, D, r) == IF r = 0 THEN SNaN ELSE Surd(p, q, D, r)

\* the value of s in units of 1/k, rounded
SurdApprox(s, k) == RoundDiv(s.p * k + s.q * Isqrt(s.D * k * k), s.r)

---------------------------------------------------------------------------
(* Angles                                                                  *)

\* atan(n/d) for 0 <= n <= d, d > 0, in units of which h make a half turn:
\* atan(z) ~ z*(pi/4) + 0.273*z*(1 - z), within 0.22 degrees
AtanPoly(z, h) ==
    RoundDiv(h * z, 4000) + RoundDiv(h * 87 * RoundDiv(z * (1000 - z), 1000), 1000000)

\* n/d in thousandths, for 0 <= n <= d
Ratio1000(n, d) ==
    IF d < 1000000 THEN RoundDiv(n * 1000, d)
    ELSE Min2(1000, RoundDiv(n, RoundDiv(d, 1000)))

AtanRatio(n, d, h) == AtanPoly(Ratio1000(n, d), h)

\* atan2(|y|, |x|) in [0, h/2]
AtanOct(ay, ax, h) ==
    IF ax = 0 /\ ay = 0 THEN 0
    ELSE IF ay <= ax THEN AtanRatio(ay, ax, h)
    ELSE RoundDiv(h, 2) - AtanRatio(ax, ay, h)

\* atan2(y, x) in (-h, h], h units to the half turn; atan2(0, 0) = 0
Atan2H(y, x, h) ==
    IF y < 0
    THEN -(IF x >= 0 THEN AtanOct(-y, x, h) ELSE h - AtanOct(-y, -x, h))
    ELSE IF x >= 0 THEN AtanOct(y, x, h) ELSE h - AtanOct(y, -x, h)

---------------------------------------------------------------------------
(* numpy array helpers                                                     *)

RECURSIVE FlatNonZeroR(_, _)
FlatNonZeroR(flags, i) ==
    IF i > Len(flags) THEN <<>>
    ELSE (IF flags[i] THEN <<i>> ELSE <<>>) \o FlatNonZeroR(flags, i + 1)

\* np.flatnonzero(flags): the indices of the true entries, ascending
FlatNonZero(flags) == FlatNonZeroR(flags, 1)

\* arr[idx] for an index array idx
Take(arr, idx) == [k \in 1..Len(idx) |-> arr[idx[k]]]

\* arr[flags] for a boolean array flags
Compress(arr, flags) == Take(arr, FlatNonZero(flags))

\* arr[idx] = vals
Scatter(arr, idx, vals) ==
    [i \in 1..Len(arr) |->
        IF \E k \in 1..Len(idx) : idx[k] = i
        THEN vals[CHOOSE k \in 1..Len(idx) : idx[k] = i]
        ELSE arr[i]]

\* np.full_like(arr, np.nan)
FullNaN(arr) == [i \in 1..Len(arr) |-> NaN]

---------------------------------------------------------------------------
(* pymap3d primitives (spherical Earth, integer degrees)                   *)

\* sub-unit resolution of the pierce point handed to ecef2geodetic
GeoRes == 16

\* a geodetic position: latitude and longitude in degrees and the point
\* they denote.  The latitude of the Earth's centre is 0/0: pymap3d
\* releases differ in what they return there (NaN, or 0 from the
\* ArithmeticError fallback), so it is the parameter lat0
Geodetic(x, y, z, lat0) ==
    [lat |-> IF x = 0 /\ y = 0 /\ z = 0 THEN lat0
             ELSE F(Atan2H(z, Isqrt(x * x + y * y), 180)),
     lon |-> F(Atan2H(y, x, 180)),
     ecef |-> <<x, y, z>>]

\* ecef2geodetic(x, y, z) -> (lat, lon, alt)
ecef2geodetic(x, y, z, lat0) == Geodetic(x, y, z, lat0)

\* resolution of |rec| in the azimuth
NormRes == 16

\* relative rounding allowed on a length, in parts of 16384
RelTol == 8

\* ecef2aer(xB, yB, zB, *rec_geodetic, deg=True): azimuth in [0, 360) and
\* elevation in [-90, 90] of the satellite seen from the receiver
AerOf(r0, d, rho2, rr2, dr, dd) ==
    [az |-> F(Atan2H(IF rho2 = 0 THEN d[2] * NormRes
                     ELSE (r0[1] * d[2] - r0[2] * d[1])
                          * Isqrt(rr2 * NormRes * NormRes),
                     IF rho2 = 0 THEN (-Sign(r0[3])) * d[1] * NormRes
                     ELSE (rho2 * d[3] - r0[3] * (r0[1] * d[1] + r0[2] * d[2]))
                          * NormRes,
                     180) % 360),
     el |-> F(Atan2H(dr, Isqrt(dd * rr2 - dr * dr), 180))]

\* east, north and up components of d = sat - rec, each times rho * |rec| > 0
AerVec(r0, d) ==
    AerOf(r0, d, r0[1] * r0[1] + r0[2] * r0[2],
          r0[1] * r0[1] + r0[2] * r0[2] + r0[3] * r0[3],
          r0[1] * d[1] + r0[2] * d[2] + r0[3] * d[3],
          d[1] * d[1] + d[2] * d[2] + d[3] * d[3])

ecef2aer(sat, geo) ==
    IF IsNaN(geo.lat) THEN [az |-> NaN, el |-> NaN]
    ELSE AerVec(geo.ecef, <<sat[1] - geo.ecef[1], sat[2] - geo.ecef[2],
                            sat[3] - geo.ecef[3]>>)

---------------------------------------------------------------------------
(* pytecgg/phase/ipp.py: vectorised calculate_ipp                          *)

\* Earth radius, in model units (6371000.0 m in the source)
RE == 6

\* valid = (0 <= t) & (t <= 1)
TValid(t) == SurdGe0(t) /\ SurdLe1(t)

\* np.minimum(t1, t2)
Minimum(t1, t2) == IF SurdLe(t1, t2) THEN t1 ELSE t2

\* ChooseT preferring the larger root when both are valid
ChooseTLarger(t1, t2) ==
    IF TValid(t1) /\ TValid(t2) THEN (IF SurdLe(t1, t2) THEN t2 ELSE t1)
    ELSE IF TValid(t1) THEN t1
    ELSE IF TValid(t2) THEN t2
    ELSE SNaN

\* np.where(t1_valid & t2_valid, np.minimum(t1, t2),
\*          np.where(t1_valid, t1, np.where(t2_valid, t2, np.nan)))
ChooseT(t1, t2) ==
    IF TValid(t1) /\ TValid(t2) THEN Minimum(t1, t2)
    ELSE IF TValid(t1) THEN t1
    ELSE IF TValid(t2) THEN t2
    ELSE SNaN

\* disc = b**2 - 4 * a * c
Disc(a, b, c) == FSub(FMul(b, b), FMul(FMul(F(4), a), c))

\* IdxOut indexing the output by the positions within the masked rows
IdxOutOfMasked(mask, valid) == FlatNonZero(valid)

\* idx_out = np.flatnonzero(mask)[valid]
IdxOut(mask, valid) == Compress(FlatNonZero(mask), valid)

\* dx, dy, dz = xB - xA, yB - yA, zB - zA, one triple per row
Deltas(rec_ecef, sat_ecef_array) ==
    [i \in 1..Len(sat_ecef_array) |->
        <<FSub(sat_ecef_array[i][1], F(rec_ecef[1])),
          FSub(sat_ecef_array[i][2], F(rec_ecef[2])),
          FSub(sat_ecef_array[i][3], F(rec_ecef[3]))>>]

\* a = dx**2 + dy**2 + dz**2
QuadA(d) == FAdd(FAdd(FMul(d[1], d[1]), FMul(d[2], d[2])), FMul(d[3], d[3]))

\* QuadB without the factor 2
QuadBHalf(d, rec_ecef) ==
    FAdd(FAdd(FMul(d[1], F(rec_ecef[1])), FMul(d[2], F(rec_ecef[2]))),
         FMul(d[3], F(rec_ecef[3])))

\* b = 2 * (dx * xA + dy * yA + dz * zA)
QuadB(d, rec_ecef) ==
    FMul(F(2), FAdd(FAdd(FMul(d[1], F(rec_ecef[1])), FMul(d[2], F(rec_ecef[2]))),
                    FMul(d[3], F(rec_ecef[3]))))

\* c = xA**2 + yA**2 + zA**2 - (RE + h_ipp) ** 2
QuadC(rec_ecef, h_ipp) ==
    rec_ecef[1] * rec_ecef[1] + rec_ecef[2] * rec_ecef[2]
    + rec_ecef[3] * rec_ecef[3] - (RE + h_ipp) * (RE + h_ipp)

\* the early return, and the arrays as initialised
IppAllNaN(n, mask) ==
    [lat_ipp |-> [i \in 1..n |-> NaN], lon_ipp |-> [i \in 1..n |-> NaN],
     azi |-> [i \in 1..n |-> NaN], ele |-> [i \in 1..n |-> NaN],
     mask |-> mask, t |-> <<>>, tv |-> <<>>, idx_out |-> <<>>,
     x_ipp |-> <<>>, y_ipp |-> <<>>, z_ipp |-> <<>>]

\* lines 84-99: the results are stored at idx_out; azimuth and elevation
\* only if rec_geodetic is not None and len(idx_out) > 0
IppStore(n, mask, t, tv, idx_out, pts, geo, aer) ==
    [lat_ipp |-> Scatter([i \in 1..n |-> NaN], idx_out,
                         [k \in 1..Len(tv) |-> geo[k].lat]),
     lon_ipp |-> Scatter([i \in 1..n |-> NaN], idx_out,
                         [k \in 1..Len(tv) |-> geo[k].lon]),
     azi |-> IF Len(idx_out) > 0
             THEN Scatter([i \in 1..n |-> NaN], idx_out,
                          [k \in 1..Len(tv) |-> aer[k].az])
             ELSE [i \in 1..n |-> NaN],
     ele |-> IF Len(idx_out) > 0
             THEN Scatter([i \in 1..n |-> NaN], idx_out,
                          [k \in 1..Len(tv) |-> aer[k].el])
             ELSE [i \in 1..n |-> NaN],
     mask |-> mask, t |-> t, tv |-> tv, idx_out |-> idx_out,
     x_ipp |-> [k \in 1..Len(tv) |-> pts[k][1]],
     y_ipp |-> [k \in 1..Len(tv) |-> pts[k][2]],
     z_ipp |-> [k \in 1..Len(tv) |-> pts[k][3]]]

\* lines 76-94: x_ipp = xA + dxv * tv, ..; ecef2geodetic; ecef2aer
IppPoints(rec_ecef, n, mask, t, tv, idx_out, dv, satv, rec_geo, lat0, pts) ==
    IppStore(n, mask, t, tv, idx_out, pts,
             [k \in 1..Len(tv) |->
                 ecef2geodetic(SurdApprox(pts[k][1], GeoRes),
                               SurdApprox(pts[k][2], GeoRes),
                               SurdApprox(pts[k][3], GeoRes), lat0)],
             [k \in 1..Len(tv) |->
                 ecef2aer(<<satv[k][1].v, satv[k][2].v, satv[k][3].v>>, rec_geo)])

\* lines 71-74: valid = ~np.isnan(t); dxv = dx[mask][valid]; tv = t[valid]
IppValid(rec_ecef, n, mask, t, valid, dm, satm, rec_geo, lat0) ==
    IppPoints(rec_ecef, n, mask, t, Compress(t, valid), IdxOut(mask, valid),
              Compress(dm, valid), Compress(satm, valid), rec_geo, lat0,
              [k \in 1..Len(Compress(t, valid)) |->
                  <<SurdAffine(rec_ecef[1], Compress(dm, valid)[k][1].v,
                               Compress(t, valid)[k]),
                    SurdAffine(rec_ecef[2], Compress(dm, valid)[k][2].v,
                               Compress(t, valid)[k]),
                    SurdAffine(rec_ecef[3], Compress(dm, valid)[k][3].v,
                               Compress(t, valid)[k])>>])

\* lines 55-69: the roots of the masked rows and the choice of t
IppRoots(rec_ecef, n, mask, am, bm, discm, dm, satm, rec_geo, lat0, t) ==
    IppValid(rec_ecef, n, mask, t, [j \in 1..Len(t) |-> ~t[j].isnan],
             dm, satm, rec_geo, lat0)

\* RootsT keeping only the rows whose line of sight leaves upwards (b >= 0)
RootsTUpward(am, bm, discm) ==
    [j \in 1..Len(am) |->
        IF bm[j].v < 0 THEN SNaN
        ELSE ChooseT(SurdDiv(-bm[j].v, 1, discm[j].v, 2 * am[j].v),
                     SurdDiv(-bm[j].v, -1, discm[j].v, 2 * am[j].v))]

\* t1 = (-b[mask] + sqrt_disc) / denom; t2 = (-b[mask] - sqrt_disc) / denom
RootsT(am, bm, discm) ==
    [j \in 1..Len(am) |->
        ChooseT(SurdDiv(-bm[j].v, 1, discm[j].v, 2 * am[j].v),
                SurdDiv(-bm[j].v, -1, discm[j].v, 2 * am[j].v))]

\* lines 42-52: disc, mask, and the early return when no row passes
IppMask(rec_ecef, sat_ecef_array, rec_geo, lat0, d, a, b, disc, mask) ==
    IF ~(\E i \in 1..Len(mask) : mask[i])
    THEN IppAllNaN(Len(mask), mask)
    ELSE IppRoots(rec_ecef, Len(mask), mask, Compress(a, mask),
                  Compress(b, mask), Compress(disc, mask), Compress(d, mask),
                  Compress(sat_ecef_array, mask), rec_geo, lat0,
                  RootsT(Compress(a, mask), Compress(b, mask),
                         Compress(disc, mask)))

IppQuad(rec_ecef, sat_ecef_array, rec_geo, lat0, d, a, b, c) ==
    IppMask(rec_ecef, sat_ecef_array, rec_geo, lat0, d, a, b,
            [i \in 1..Len(a) |-> Disc(a[i], b[i], F(c))],
            [i \in 1..Len(a) |-> FGe(Disc(a[i], b[i], F(c)), F(0))])

IppDeltas(rec_ecef, sat_ecef_array, h_ipp, rec_geo, lat0, d) ==
    IppQuad(rec_ecef, sat_ecef_array, rec_geo, lat0, d,
            [i \in 1..Len(d) |-> QuadA(d[i])],
            [i \in 1..Len(d) |-> QuadB(d[i], rec_ecef)],
            QuadC(rec_ecef, h_ipp))

\* rec_geodetic is <<>> for None, <<g>> for a supplied position; when it is
\* None it is computed from rec_ecef (line 90)
calculate_ipp(rec_ecef, sat_ecef_array, h_ipp, rec_geodetic, lat0) ==
    IppDeltas(rec_ecef, sat_ecef_array, h_ipp,
              IF rec_geodetic = <<>>
              THEN ecef2geodetic(rec_ecef[1], rec_ecef[2], rec_ecef[3], lat0)
              ELSE rec_geodetic[1],
              lat0, Deltas(rec_ecef, sat_ecef_array))

---------------------------------------------------------------------------
(* pytecal/phase/ipp.py: scalar calculate_ipp                              *)

\* Python's max(t1, t2): t1 unless t2 > t1
PyMax(t1, t2) ==
    IF ~t1.isnan /\ ~t2.isnan /\ ~SurdLe(t2, t1) THEN t2 ELSE t1

\* Python's min(m, 1.0): m unless 1.0 < m
PyMin1(m) == IF ~m.isnan /\ ~SurdLe1(m) THEN Surd(1, 0, m.D, 1) ELSE m

\* t = min(max(t1, t2), 1.0)
ClampT(t1, t2) == PyMin1(PyMax(t1, t2))

\* any(np.isnan(coord) for coord in sat_ecef_coords)
AnyNaN(sat) == \E k \in 1..3 : IsNaN(sat[k])

\* lines 75-92: the geodetic coordinates of the IPP and the look angles
IppScalarOut(rec, sat, lat0, discriminant, t) ==
    [none |-> FALSE,
     lat |-> IF discriminant >= 0 /\ t.isnan THEN NaN
             ELSE IF discriminant < 0
             THEN ecef2geodetic(0, 0, 0, lat0).lat
             ELSE ecef2geodetic(
                      SurdApprox(SurdAffine(rec[1], sat[1] - rec[1], t), GeoRes),
                      SurdApprox(SurdAffine(rec[2], sat[2] - rec[2], t), GeoRes),
                      SurdApprox(SurdAffine(rec[3], sat[3] - rec[3], t), GeoRes),
                      lat0).lat,
     lon |-> IF discriminant >= 0 /\ t.isnan THEN NaN
             ELSE IF discriminant < 0
             THEN ecef2geodetic(0, 0, 0, lat0).lon
             ELSE ecef2geodetic(
                      SurdApprox(SurdAffine(rec[1], sat[1] - rec[1], t), GeoRes),
                      SurdApprox(SurdAffine(rec[2], sat[2] - rec[2], t), GeoRes),
                      SurdApprox(SurdAffine(rec[3], sat[3] - rec[3], t), GeoRes),
                      lat0).lon,
     azi |-> ecef2aer(sat, ecef2geodetic(rec[1], rec[2], rec[3], lat0)).az,
     ele |-> ecef2aer(sat, ecef2geodetic(rec[1], rec[2], rec[3], lat0)).el,
     branch |-> IF discriminant < 0 THEN "no_real_solution" ELSE "roots",
     t |-> IF discriminant < 0 THEN SNaN ELSE t]

\* lines 46-72: the quadratic, its discriminant and the choice of t
IppScalarQuad(rec, sat, lat0, a, b, c) ==
    IppScalarOut(rec, sat, lat0, b * b - 4 * a * c,
                 ClampT(SurdDiv(-b, 1, b * b - 4 * a * c, 2 * a),
                        SurdDiv(-b, -1, b * b - 4 * a * c, 2 * a)))

calculate_ipp_scalar(rec_ecef_coords, sat_ecef_coords, h_ipp, lat0) ==
    IF AnyNaN(sat_ecef_coords)
    THEN [none |-> TRUE, lat |-> NaN, lon |-> NaN, azi |-> NaN, ele |-> NaN,
          branch |-> "nan", t |-> SNaN]
    ELSE IppScalarQuad(
             rec_ecef_coords,
             <<sat_ecef_coords[1].v, sat_ecef_coords[2].v, sat_ecef_coords[3].v>>,
             lat0,
             (sat_ecef_coords[1].v - rec_ecef_coords[1])
               * (sat_ecef_coords[1].v - rec_ecef_coords[1])
             + (sat_ecef_coords[2].v - rec_ecef_coords[2])
               * (sat_ecef_coords[2].v - rec_ecef_coords[2])
             + (sat_ecef_coords[3].v - rec_ecef_coords[3])
               * (sat_ecef_coords[3].v - rec_ecef_coords[3]),
             2 * ((sat_ecef_coords[1].v - rec_ecef_coords[1]) * rec_ecef_coords[1]
                  + (sat_ecef_coords[2].v - rec_ecef_coords[2]) * rec_ecef_coords[2]
                  + (sat_ecef_coords[3].v - rec_ecef_coords[3]) * rec_ecef_coords[3]),
             rec_ecef_coords[1] * rec_ecef_coords[1]
             + rec_ecef_coords[2] * rec_ecef_coords[2]
             + rec_ecef_coords[3] * rec_ecef_coords[3]
             - (h_ipp + RE) * (h_ipp + RE))

(* Inputs of calculate_ipp *)

\* receiver positions: the Earth's centre (as in the tests), on the ground
\* (|rec| = RE), on a shell and outside the shells
RecSet == {<<0, 0, 0>>, <<0, 0, 6>>, <<6, 0, 0>>, <<4, 4, 2>>, <<-2, 4, -4>>,
           <<0, 7, 0>>, <<0, 0, -10>>}

SatCoord == {-8, 0, 3, 6, 7, 9}

\* shell heights: radius 7 and radius 9
HeightSet == {1, 3}

Row(x, y, z) == <<F(x), F(y), F(z)>>

AllRows == {Row(x, y, z) : x \in SatCoord, y \in SatCoord, z \in SatCoord}

\* rows of the arrays with several rows: NaN in one and in two coordinates,
\* a satellite inside the shells, on or outside them, beyond the far side
FewRows == {<<F(9), NaN, F(0)>>, <<NaN, F(0), NaN>>,
            Row(2, 0, 0), Row(6, 6, 3), Row(-8, -8, -8)}

SeqsUpTo(S, n) == UNION {[1..k -> S] : k \in 1..n}

SatArrays ==
    {<<r>> : r \in AllRows \cup {<<NaN, NaN, NaN>>}} \cup SeqsUpTo(FewRows, MaxSats)

\* what pymap3d returns as the latitude of the Earth's centre
OriginLats(r) == IF r = <<0, 0, 0>> THEN {NaN, F(0)} ELSE {F(0)}

IppInputs ==
    {[rec_ecef |-> r, sat_ecef_array |-> s, h_ipp |-> h, rec_geodetic |-> <<>>,
      origin_lat |-> l0] :
        r \in RecSet, s \in SatArrays, h \in HeightSet, l0 \in {NaN, F(0)}}
    \cup
    {[rec_ecef |-> r, sat_ecef_array |-> s, h_ipp |-> h,
      rec_geodetic |-> <<Geodetic(r[1], r[2], r[3], l0)>>, origin_lat |-> l0] :
        r \in RecSet, s \in SeqsUpTo(FewRows, MaxSats), h \in HeightSet,
        l0 \in {NaN, F(0)}}

IppCalls == {c \in IppInputs : c.origin_lat \in OriginLats(c.rec_ecef)}

NoRet == [lat_ipp |-> <<>>, lon_ipp |-> <<>>, azi |-> <<>>, ele |-> <<>>]

NoLoc == [mask |-> <<>>, t |-> <<>>, tv |-> <<>>, idx_out |-> <<>>,
          x_ipp |-> <<>>, y_ipp |-> <<>>, z_ipp |-> <<>>]

NoCall == [none |-> TRUE]

IdleIpp == ipp_in = NoCall /\ ipp_loc = NoLoc /\ ipp_ret = NoRet

IdleKepler == kep_in = NoCall /\ e_prev = 0 /\ e_curr = 0 /\ kep_n = 0

IdleAnomalies == anom_in = NoCall /\ anom_ret = NoCall

IdleGlonass == glo_in = NoCall /\ glo_ret = NoCall

IdleSatCoord == sc_in = NoCall /\ sc_ret = NoCall

InitIpp ==
    /\ pc = "ipp_call"
    /\ ipp_in \in IppCalls
    /\ ipp_loc = NoLoc
    /\ ipp_ret = NoRet
    /\ IdleKepler /\ IdleAnomalies /\ IdleGlonass /\ IdleSatCoord

\* one call of the vectorised calculate_ipp, from its arguments to its return
CalculateIpp ==
    /\ pc = "ipp_call"
    /\ LET r == calculate_ipp(ipp_in.rec_ecef, ipp_in.sat_ecef_array,
                              ipp_in.h_ipp, ipp_in.rec_geodetic,
                              ipp_in.origin_lat)
       IN  /\ ipp_ret' = [lat_ipp |-> r.lat_ipp, lon_ipp |-> r.lon_ipp,
                          azi |-> r.azi, ele |-> r.ele]
           /\ ipp_loc' = [mask |-> r.mask, t |-> r.t, tv |-> r.tv,
                          idx_out |-> r.idx_out,
                          x_ipp |-> r.x_ipp, y_ipp |-> r.y_ipp, z_ipp |-> r.z_ipp]
    /\ pc' = "ipp_done"
    /\ UNCHANGED <<ipp_in, kep_vars, anom_vars, glo_vars, sc_vars>>

\* one call of the scalar calculate_ipp, on a single satellite
CalculateIppScalar ==
    /\ pc = "ipp_call"
    /\ Len(ipp_in.sat_ecef_array) = 1
    /\ ipp_in.rec_geodetic = <<>>
    /\ LET r == calculate_ipp_scalar(ipp_in.rec_ecef, ipp_in.sat_ecef_array[1],
                                     ipp_in.h_ipp, ipp_in.origin_lat)
       IN  /\ ipp_ret' = [none |-> r.none, lat |-> r.lat, lon |-> r.lon,
                          azi |-> r.azi, ele |-> r.ele]
           /\ ipp_loc' = [branch |-> r.branch, t |-> r.t]
    /\ pc' = "ipp1_done"
    /\ UNCHANGED <<ipp_in, kep_vars, anom_vars, glo_vars, sc_vars>>

NextIpp == CalculateIpp \/ CalculateIppScalar

SpecIpp == InitIpp /\ [][NextIpp]_vars

---------------------------------------------------------------------------
(* Fixed-point trigonometry of the orbit code                              *)

\* the sine is evaluated with 16 internal units to the fine unit
IntScale == 16 * Scale

PiF == RoundDiv(Scale * 355, 113)

TwoPiF == RoundDiv(Scale * 710, 113)

HalfPiI == RoundDiv(IntScale * 355, 226)

PiI == RoundDiv(IntScale * 355, 113)

TwoPiI == RoundDiv(IntScale * 710, 113)

\* sin(x) = x*(1 - y/6*(1 - y/20*(1 - y/42*(1 - y/72)))), y = x^2, for x in
\* [0, pi/2], all in internal units
SinH4(y) == IntScale - RoundDiv(y, 72)

SinH3(y) == IntScale - RoundDiv(y * SinH4(y), 42 * IntScale)

SinH2(y) == IntScale - RoundDiv(y * SinH3(y), 20 * IntScale)

SinH1(y) == IntScale - RoundDiv(y * SinH2(y), 6 * IntScale)

\* the result is at most 1, as that of math.sin; sin(pi/2) and cos(0) are 1
SinQ(x) == Min2(IntScale, RoundDiv(x * SinH1(RoundDiv(x * x, IntScale)), IntScale))

\* sin of r in [0, 2*pi), internal units
SinR(r) ==
    IF r <= HalfPiI THEN SinQ(r)
    ELSE IF r <= PiI THEN SinQ(PiI - r)
    ELSE IF r <= PiI + HalfPiI THEN -SinQ(r - PiI)
    ELSE -SinQ(Min2(TwoPiI - r, HalfPiI))

\* np.sin(x), math.sin(x): x and the result times Scale
SinF(x) == RoundDiv(SinR((x * 16) % TwoPiI), 16)

\* math.cos(x)
CosF(x) == RoundDiv(SinR((x * 16 + HalfPiI) % TwoPiI), 16)

\* math.fmod(x, m), m > 0: the remainder has the sign of x
FMod(x, m) == IF x >= 0 THEN x % m ELSE -((-x) % m)

---------------------------------------------------------------------------
(* pytec/satellites/kepler.py: kepler(e, mk, tol)                          *)
(* e is in thousandths, mk in fine units, tol in arcseconds                *)

\* tol_rad = tol * (np.pi / 648000), in fine units: a difference of fine
\* units exceeds tol_rad exactly when it exceeds its integer part
TolRad(tol) == (tol * PiF) \div 648000

\* e * np.sin(x)
ESin(e, x) == RoundDiv(e * SinF(x), 1000)

\* the sum mk + p as binary64 forms it: digits of p below Ulp are lost
RoundUlp(p) == RoundDiv(p, Ulp) * Ulp

\* KeplerIterate with the sign of the correction slipped
KeplerIterateMinus(e, mk, x) == mk - RoundUlp(ESin(e, x))

\* mk + e * np.sin(x)
KeplerIterate(e, mk, x) == mk + RoundUlp(ESin(e, x))

\* a seed that ignores mk
KeplerSeedZero(mk) == 0

\* e_prev = mk
KeplerSeed(mk) == mk

\* abs(e_curr - e_prev) > tol_rad
KeplerCond(prev, curr, tol) == Abs(curr - prev) > TolRad(tol)

\* the loop of kepler from the state (prev, curr); hang: the loop has not
\* left after MaxIter more iterations
RECURSIVE KeplerWhile(_, _, _, _, _, _)
KeplerWhile(e, mk, tol, prev, curr, fuel) ==
    IF ~KeplerCond(prev, curr, tol) THEN [hang |-> FALSE, val |-> curr]
    ELSE IF fuel = 0 THEN [hang |-> TRUE, val |-> curr]
    ELSE KeplerWhile(e, mk, tol, curr, KeplerIterate(e, mk, curr), fuel - 1)

kepler(e, mk, tol) ==
    KeplerWhile(e, mk, tol, KeplerSeed(mk),
                KeplerIterate(e, mk, KeplerSeed(mk)), MaxIter)

\* eccentricities 0, 0.01, 0.5, 0.9, 0.999
EccSet == {0, 10, 500, 900, 999}

\* mean anomalies from below -pi to above 3*pi
MkSet == {m \in (-PiF - 100)..(3 * PiF) : m % 263 = 0}

\* tolerances, from far below the spacing Ulp to far above it
TolSet == {1, 300, 1000, 4000, 20000}

KeplerInputs == [e : EccSet, mk : MkSet, tol : TolSet]

InitKepler ==
    /\ pc = "kepler_call"
    /\ kep_in \in KeplerInputs
    /\ e_prev = 0 /\ e_curr = 0 /\ kep_n = 0
    /\ IdleIpp /\ IdleAnomalies /\ IdleGlonass /\ IdleSatCoord

\* lines 17-20: tol_rad, e_prev = mk, e_curr = mk + e * np.sin(e_prev)
KeplerEnter ==
    /\ pc = "kepler_call"
    /\ e_prev' = KeplerSeed(kep_in.mk)
    /\ e_curr' = KeplerIterate(kep_in.e, kep_in.mk, KeplerSeed(kep_in.mk))
    /\ pc' = "kepler_while"
    /\ UNCHANGED <<kep_in, kep_n, ipp_vars, anom_vars, glo_vars, sc_vars>>

\* lines 22-23: one execution of the loop body
KeplerLoop ==
    /\ pc = "kepler_while"
    /\ KeplerCond(e_prev, e_curr, kep_in.tol)
    /\ e_prev' = e_curr
    /\ e_curr' = KeplerIterate(kep_in.e, kep_in.mk, e_curr)
    /\ kep_n' = Min2(kep_n + 1, MaxCount)
    /\ UNCHANGED <<pc, kep_in, ipp_vars, anom_vars, glo_vars, sc_vars>>

\* line 25: return e_curr
KeplerReturn ==
    /\ pc = "kepler_while"
    /\ ~KeplerCond(e_prev, e_curr, kep_in.tol)
    /\ pc' = "kepler_done"
    /\ UNCHANGED <<kep_vars, ipp_vars, anom_vars, glo_vars, sc_vars>>

NextKepler == KeplerEnter \/ KeplerLoop \/ KeplerReturn

SpecKepler == InitKepler /\ [][NextKepler]_vars

\* the interpreter keeps running the call: a step that can be taken is taken
FairSpecKepler == SpecKepler /\ WF_vars(NextKepler)

---------------------------------------------------------------------------
(* pytecal/satellites/positions.py: _compute_anomalies(ecc, M0, n, tk)     *)
(* ecc in thousandths, M0 in fine units, n in fine units per second        *)

\* TOL_KEPLER: 0.001 arcseconds in the source, some 10^7 spacings of
\* binary64; on the model's grid, a tolerance of a few spacings Ulp
TOL_KEPLER == 2000

\* math.sqrt(1 - ecc**2), in thousandths
SqrtOneMinusE2(ecc) == RoundDiv(Isqrt((1000000 - ecc * ecc) * 100), 10)

\* vk = math.fmod(math.atan2(sqrt(1 - ecc**2) * sin(Ek), cos(Ek) - ecc), 2*pi)
TrueAnomaly(ecc, Ek) ==
    FMod(Atan2H(SqrtOneMinusE2(ecc) * SinF(Ek),
                CosF(Ek) * 1000 - ecc * Scale, PiF), TwoPiF)

\* Ek = math.fmod(kepler(ecc, Mk, TOL_KEPLER), 2 * math.pi)
EccentricAnomaly(ecc, Mk) == FMod(kepler(ecc, Mk, TOL_KEPLER).val, TwoPiF)

\* Mk = math.fmod(M0 + n * tk, 2 * math.pi)
MeanAnomaly(M0, n, tk) == FMod(M0 + n * tk, TwoPiF)

AnomaliesOf(ecc, Mk, Ek) == [Mk |-> Mk, Ek |-> Ek, vk |-> TrueAnomaly(ecc, Ek)]

AnomaliesFrom(ecc, Mk) == AnomaliesOf(ecc, Mk, EccentricAnomaly(ecc, Mk))

compute_anomalies(ecc, M0, n, tk) == AnomaliesFrom(ecc, MeanAnomaly(M0, n, tk))

\* eccentricities 0, 0.01 (as in the tests), 0.5
AnomEccSet == {0, 10, 500}

\* M0 from -2*pi to 2*pi, n = 0 or 2 fine units per second, tk in seconds
AnomM0Set == {m \in (-TwoPiF)..TwoPiF : m % 643 = 0}

AnomInputs == [ecc : AnomEccSet, M0 : AnomM0Set, n : {0, 2}, tk : {0, 1000, 2500}]

InitAnomalies ==
    /\ pc = "anom_call"
    /\ anom_in \in AnomInputs
    /\ anom_ret = NoCall
    /\ IdleIpp /\ IdleKepler /\ IdleGlonass /\ IdleSatCoord

\* one call of _compute_anomalies; it returns when its call of kepler does
ComputeAnomalies ==
    /\ pc = "anom_call"
    /\ ~kepler(anom_in.ecc, MeanAnomaly(anom_in.M0, anom_in.n, anom_in.tk),
               TOL_KEPLER).hang
    /\ anom_ret' = compute_anomalies(anom_in.ecc, anom_in.M0, anom_in.n, anom_in.tk)
    /\ pc' = "anom_done"
    /\ UNCHANGED <<anom_in, ipp_vars, kep_vars, glo_vars, sc_vars>>

NextAnomalies == ComputeAnomalies

SpecAnomalies == InitAnomalies /\ [][NextAnomalies]_vars

---------------------------------------------------------------------------
(* pytecgg/satellites/glonass.py and pytecal/satellites/glonass.py         *)
(* positions in m, velocities in m/s, accelerations in um/s^2, times in s,  *)
(* angles in fine units; the record's positions are in km                  *)

\* GNSS_CONSTANTS["GLONASS"]: gm in km^3/s^2, we in 10^-8 rad/s, a in km,
\* c20 in 10^-6
ConstGm == 398600

ConstWe == 7292

ConstA == 6378

ConstC20 == -1083

\* const.we * x for a time x in s (an angle) or a length x (a velocity)
WeAngle(x) == RoundDiv(RoundDiv(x * Scale, 1000) * ConstWe, 100000)

WeTimes(x) == RoundDiv(RoundDiv(x, 1000) * ConstWe, 100000)

\* x * c / IntScale for a cosine or sine c in internal units
MulI(x, c) == (x \div IntScale) * c + RoundDiv((x % IntScale) * c, IntScale)

\* math.cos, math.sin of an angle in fine units, times IntScale
CosI(x) == SinR((x * 16 + HalfPiI) % TwoPiI)

SinI(x) == SinR((x * 16) % TwoPiI)

\* M @ v for a matrix of entries times IntScale
MatVec(M, v) ==
    [i \in 1..3 |-> MulI(v[1], M[i][1]) + MulI(v[2], M[i][2]) + MulI(v[3], M[i][3])]

\* rot_matrix: Earth-fixed to inertial, by theta_ge
RotMatrix(theta) ==
    <<<<CosI(theta), -SinI(theta), 0>>,
      <<SinI(theta), CosI(theta), 0>>,
      <<0, 0, IntScale>>>>

\* a rotation matrix that is not transposed for the way back
RotMatrixObsUntransposed(theta) ==
    <<<<CosI(theta), -SinI(theta), 0>>,
      <<SinI(theta), CosI(theta), 0>>,
      <<0, 0, IntScale>>>>

\* rot_matrix_obs: inertial to Earth-fixed, by theta_gi
RotMatrixObs(theta) ==
    <<<<CosI(theta), SinI(theta), 0>>,
      <<-SinI(theta), CosI(theta), 0>>,
      <<0, 0, IntScale>>>>

\* datetime.datetime.fromtimestamp(gps_seconds, utc): the date as its
\* proleptic ordinal (toordinal) and the time of day hour*3600 + minute*60
\* + second
DateOf(ts) == 719163 + ts \div 86400

TimeOfDay(ts) == ts % 86400

\* get_gmst: jd = toordinal + 1721425.5; d2 is 2 * (jd - 2451545.0)
GmstMilliDeg(d2) ==
    280461 + 180000 * (d2 % 2) + 490 * d2 + RoundDiv(2824 * d2, 1000)
    + RoundDiv(388 * RoundDiv(d2 * d2, 73050), 73050000)

\* math.radians(gmst % 360); the term t**3 / 38710000 is below a millionth
\* of a degree for every date of the calendar
GmstRadians(mdeg) == RoundDiv(RoundDiv(mdeg % 360000, 10) * PiF, 18000)

\* twice the Julian Date of line 46: jd = dt.toordinal() + 1721425.5
JulianDate2(ordinal) == 2 * ordinal + 3442851

\* lines 45-55; 2 * 2451545.0 = 4903090
get_gmst(ordinal) == GmstRadians(GmstMilliDeg(JulianDate2(ordinal) - 4903090))

\* theta_ge = get_gmst(ymd) + const.we * (te % 86400)
ThetaGe(ordinal, te) == get_gmst(ordinal) + WeAngle(te % 86400)

\* glonass_derivatives: r in km and its norm
KmOf(r) == <<RoundDiv(r[1], 1000), RoundDiv(r[2], 1000), RoundDiv(r[3], 1000)>>

Norm2(k) == k[1] * k[1] + k[2] * k[2] + k[3] * k[3]

\* const.gm / r_norm**2 in mm/s^2
GravMm(rn) == RoundDiv(RoundDiv(ConstGm * 1000, rn) * 1000, rn)

\* 1.5 * const.c20 * const.a**2, km^2
ZonalK == RoundDiv(3 * ConstC20 * RoundDiv(ConstA * ConstA, 1000), 2000)

\* zonal_term * r_norm, um/s^2
ZonalQ(rn, r2) == RoundDiv(GravMm(rn) * ZonalK, RoundDiv(r2, 1000))

\* 1000 * (r[2] / r_norm) ** 2
Uz2(k, r2) == RoundDiv(k[3] * k[3], RoundDiv(r2, 1000))

\* acceleration = earth_grav + zonal_correction + ae
AccelOf(k, rn, r2, ae) ==
    <<-RoundDiv(GravMm(rn) * k[1], rn) * 1000
        + RoundDiv(RoundDiv(ZonalQ(rn, r2) * k[1], rn) * (1000 - 5 * Uz2(k, r2)), 1000)
        + ae[1],
      -RoundDiv(GravMm(rn) * k[2], rn) * 1000
        + RoundDiv(RoundDiv(ZonalQ(rn, r2) * k[2], rn) * (1000 - 5 * Uz2(k, r2)), 1000)
        + ae[2],
      -RoundDiv(GravMm(rn) * k[3], rn) * 1000
        + RoundDiv(RoundDiv(ZonalQ(rn, r2) * k[3], rn) * (3000 - 5 * Uz2(k, r2)), 1000)
        + ae[3]>>

\* np.concatenate([v, acceleration])
glonass_derivatives(state, ae) ==
    [dr |-> state.v,
     dv |-> AccelOf(KmOf(state.r), Isqrt(Norm2(KmOf(state.r))),
                    Norm2(KmOf(state.r)), ae)]

\* one step of length h (signed) of the integrator from state
OdeStepBy(state, d, h) ==
    [r |-> <<state.r[1] + d.dr[1] * h, state.r[2] + d.dr[2] * h,
             state.r[3] + d.dr[3] * h>>,
     v |-> <<state.v[1] + RoundDiv(d.dv[1] * h, 1000000),
             state.v[2] + RoundDiv(d.dv[2] * h, 1000000),
             state.v[3] + RoundDiv(d.dv[3] * h, 1000000)>>]

OdeStep(state, ae, h) == OdeStepBy(state, glonass_derivatives(state, ae), h)

\* the state at time tf of the solution that is y at time t
RECURSIVE Integrate(_, _, _, _)
Integrate(y, ae, t, tf) ==
    IF t = tf THEN y
    ELSE IF tf > t
    THEN Integrate(OdeStep(y, ae, Min2(MaxStep, tf - t)), ae,
                   t + Min2(MaxStep, tf - t), tf)
    ELSE Integrate(OdeStep(y, ae, -Min2(MaxStep, t - tf)), ae,
                   t - Min2(MaxStep, t - tf), tf)

\* solve_ivp(fun, t_span, y0, ...): y0 is the state at t_span[0]; the last
\* column of sol.y is the state at t_span[1]
solve_ivp(ae, t_span, y0) == Integrate(y0, ae, t_span[1], t_span[2])

\* t_span = (0, dt) if dt >= 0 else (dt, 0)
TSpan(dt) == IF dt >= 0 THEN <<0, dt>> ELSE <<dt, 0>>

\* ra = rot_matrix @ re; va = rot_matrix @ ve + we * [-ra[1], ra[0], 0]
InitialStateOf(ra, rve) ==
    [r |-> <<ra[1], ra[2], ra[3]>>,
     v |-> <<rve[1] - WeTimes(ra[2]), rve[2] + WeTimes(ra[1]), rve[3]>>]

InitialState(re, ve, theta_ge) ==
    InitialStateOf(MatVec(RotMatrix(theta_ge), re), MatVec(RotMatrix(theta_ge), ve))

\* x * 1000 for each component of a record triple
Times1000(x) == <<x[1] * 1000, x[2] * 1000, x[3] * 1000>>

\* lines 136-158: rotation back to ECEF and the result
GloResult(y0, sol, theta_ge, theta_gi, t_span, integration_time) ==
    [raised |-> "none",
     pos |-> MatVec(RotMatrixObs(theta_gi), sol.r),
     integration_time |-> integration_time,
     initial_state |-> y0,
     rotation_matrix |-> RotMatrixObs(theta_gi),
     rot_matrix |-> RotMatrix(theta_ge),
     inertial_pos |-> sol.r,
     theta_ge |-> theta_ge, theta_gi |-> theta_gi, t_span |-> t_span]

GloSolve(y0, ae, theta_ge, t_span, theta_gi, integration_time) ==
    GloResult(y0, solve_ivp(ae, t_span, y0), theta_ge, theta_gi, t_span,
              integration_time)

GloPropagate(re, ve, ae, theta_ge, dt, theta_gi, integration_time) ==
    GloSolve(InitialState(re, ve, theta_ge), ae, theta_ge, TSpan(dt), theta_gi,
             integration_time)

GloRaised(e) == [raised |-> e]

\* a value of the record or of an argument: None, a number, a datetime
\* (seconds since 1970-01-01 UTC, aware or naive) or a string
None == [is_none |-> TRUE, val |-> 0, type |-> "NoneType", aware |-> FALSE]

Num(x) == [is_none |-> FALSE, val |-> x, type |-> "float", aware |-> FALSE]

DateTime(x, aware) == [is_none |-> FALSE, val |-> x, type |-> "datetime", aware |-> aware]

Text == [is_none |-> FALSE, val |-> 0, type |-> "str", aware |-> FALSE]

\* 0.0 if data["accelX"] is None else data["accelX"]
ZeroIfNone(x) == IF x.is_none THEN 0 ELSE x.val

\* pytecgg, lines 84-158, for the fields read from the record
GloCoordinates(data, delta_seconds) ==
    GloPropagate(Times1000(data.satPos), Times1000(data.vel),
                 Times1000(<<ZeroIfNone(data.accel[1]), ZeroIfNone(data.accel[2]),
                             ZeroIfNone(data.accel[3])>>),
                 ThetaGe(DateOf(data.gps_seconds), TimeOfDay(data.gps_seconds)),
                 delta_seconds,
                 ThetaGe(DateOf(data.gps_seconds), TimeOfDay(data.gps_seconds))
                   + WeAngle(delta_seconds),
                 delta_seconds)

\* pytecal, lines 82-165, for the fields read from the record, the target
\* being data["datetime"]; None * 1000 raises TypeError
GloCoordinatesPytecal(data) ==
    IF data.accel[2].is_none \/ data.accel[3].is_none
    THEN GloRaised("TypeError")
    ELSE GloPropagate(
             Times1000(data.satPos), Times1000(data.vel),
             Times1000(<<ZeroIfNone(data.accel[1]), data.accel[2].val,
                         data.accel[3].val>>),
             ThetaGe(DateOf(data.datetime), TimeOfDay(data.gps_seconds)),
             data.datetime - data.gps_seconds,
             ThetaGe(DateOf(data.datetime), TimeOfDay(data.gps_seconds))
               + WeAngle(TimeOfDay(data.datetime) - TimeOfDay(data.gps_seconds)),
             TimeOfDay(data.datetime) - TimeOfDay(data.gps_seconds))

\* the keys of a GLONASS record that the propagators read
GloPosKeys == <<"satPosX", "satPosY", "satPosZ">>

GloVelKeys == <<"velX", "velY", "velZ">>

GloAccKeys == <<"accelX", "accelY", "accelZ">>

\* data[k] of a key that the record does not hold raises KeyError
KeysAbsent(data, keys) == \E i \in 1..Len(keys) : keys[i] \notin DOMAIN data

\* np.array([data[k1], data[k2], data[k3]]) * 1000: KeyError, or TypeError
\* for None * 1000; datetime.fromtimestamp(data["gps_seconds"]) likewise
ReadRaises(data, keys) ==
    IF KeysAbsent(data, keys) THEN "KeyError"
    ELSE IF \E i \in 1..Len(keys) : data[keys[i]].is_none THEN "TypeError"
    ELSE "none"

\* pytecgg, lines 85-102: the first statement that raises
GloRecordRaises(data) ==
    IF ReadRaises(data, GloPosKeys) # "none" THEN ReadRaises(data, GloPosKeys)
    ELSE IF ReadRaises(data, GloVelKeys) # "none" THEN ReadRaises(data, GloVelKeys)
    ELSE IF KeysAbsent(data, GloAccKeys) THEN "KeyError"
    ELSE ReadRaises(data, <<"gps_seconds">>)

\* pytecal, lines 80-102: obs_time = data["datetime"] comes first, accelY
\* and accelZ go into the array as they are, obs_time.hour needs a datetime
GloRecordRaisesPytecal(data) ==
    IF "datetime" \notin DOMAIN data THEN "KeyError"
    ELSE IF ReadRaises(data, GloPosKeys) # "none" THEN ReadRaises(data, GloPosKeys)
    ELSE IF ReadRaises(data, GloVelKeys) # "none" THEN ReadRaises(data, GloVelKeys)
    ELSE IF KeysAbsent(data, GloAccKeys) THEN "KeyError"
    ELSE IF data["accelY"].is_none \/ data["accelZ"].is_none THEN "TypeError"
    ELSE IF ReadRaises(data, <<"gps_seconds">>) # "none"
    THEN ReadRaises(data, <<"gps_seconds">>)
    ELSE IF data["datetime"].type # "datetime" THEN "AttributeError"
    ELSE "none"

\* the fields of a record that raised nothing
GloFields(data) ==
    [satPos |-> <<data["satPosX"].val, data["satPosY"].val, data["satPosZ"].val>>,
     vel |-> <<data["velX"].val, data["velY"].val, data["velZ"].val>>,
     accel |-> <<data["accelX"], data["accelY"], data["accelZ"]>>,
     gps_seconds |-> data["gps_seconds"].val,
     datetime |-> IF "datetime" \in DOMAIN data THEN data["datetime"].val ELSE 0]

\* pytecgg: glonass_satellite_coordinates(ephem_dict, sv_id, delta_seconds);
\* data = ephem_dict[sv_id] raises KeyError
glonass_satellite_coordinates(ephem_dict, sv_id, delta_seconds) ==
    IF sv_id \notin DOMAIN ephem_dict THEN GloRaised("KeyError")
    ELSE IF GloRecordRaises(ephem_dict[sv_id]) # "none"
    THEN GloRaised(GloRecordRaises(ephem_dict[sv_id]))
    ELSE GloCoordinates(GloFields(ephem_dict[sv_id]), delta_seconds)

\* pytecal: glonass_satellite_coordinates(ephem_dict, sv_id)
glonass_satellite_coordinates_pytecal(ephem_dict, sv_id) ==
    IF sv_id \notin DOMAIN ephem_dict THEN GloRaised("KeyError")
    ELSE IF GloRecordRaisesPytecal(ephem_dict[sv_id]) # "none"
    THEN GloRaised(GloRecordRaisesPytecal(ephem_dict[sv_id]))
    ELSE GloCoordinatesPytecal(GloFields(ephem_dict[sv_id]))

\* records: positions in km, velocities in km/s, supplied accelerations
GloPosSet == {<<25500, 0, 0>>, <<10000, -20000, 12000>>}

GloVelSet == {<<0, 0, 0>>, <<1, 3, -2>>, <<-2, 0, 3>>}

GloAccSet ==
    {<<Num(0), Num(0), Num(0)>>, <<None, None, None>>, <<None, Num(2), Num(-1)>>}

\* reference epochs, UTC: 2023-09-01 00:00:00, 12:30:00 and 23:55:00,
\* 2020-09-13 12:26:40, 2023-11-14 22:13:20, 2024-02-29 12:00:00,
\* 2024-07-03 09:46:40, 2025-06-15 15:06:40
GloEpochSet ==
    {1693526400, 1693571400, 1693612500, 1600000000, 1700000000, 1709208000,
     1720000000, 1750000000}

\* signed elapsed times, s
GloDeltaSet == {-600, -300, 0, 300, 900}

GloKeys ==
    {"satPosX", "satPosY", "satPosZ", "velX", "velY", "velZ", "accelX", "accelY",
     "accelZ", "gps_seconds", "datetime"}

\* the record with position p, velocity v, accelerations a, epoch ts and
\* observation time obs
GloRecord(p, v, a, ts, obs) ==
    [k \in GloKeys |->
        CASE k = "satPosX" -> Num(p[1]) [] k = "satPosY" -> Num(p[2])
          [] k = "satPosZ" -> Num(p[3])
          [] k = "velX" -> Num(v[1]) [] k = "velY" -> Num(v[2])
          [] k = "velZ" -> Num(v[3])
          [] k = "accelX" -> a[1] [] k = "accelY" -> a[2] [] k = "accelZ" -> a[3]
          [] k = "gps_seconds" -> Num(ts)
          [] OTHER -> DateTime(obs, TRUE)]

\* del data[k]
Without(data, k) == [x \in DOMAIN data \ {k} |-> data[x]]

\* a record with one key absent or None
GloFlawed ==
    {Without(GloRecord(<<25500, 0, 0>>, <<1, 3, -2>>, <<Num(0), Num(0), Num(0)>>,
                       1693571400, 1693571700), k) : k \in GloKeys}
    \cup
    {[GloRecord(<<25500, 0, 0>>, <<1, 3, -2>>, <<Num(0), Num(0), Num(0)>>,
                1693571400, 1693571700) EXCEPT ![k] = None] : k \in GloKeys}

GloInputs ==
    {[variant |-> x, ephem_dict |-> [id \in {"R01"} |-> GloRecord(p, v, a, ts, ts + d)],
      sv_id |-> "R01", delta_seconds |-> d] :
        x \in {"pytecgg", "pytecal"},
        p \in GloPosSet, v \in GloVelSet, a \in GloAccSet, ts \in GloEpochSet,
        d \in GloDeltaSet}
    \cup
    {[variant |-> x, ephem_dict |-> [id \in {"R01"} |-> r], sv_id |-> sv,
      delta_seconds |-> 300] :
        x \in {"pytecgg", "pytecal"}, r \in GloFlawed, sv \in {"R01", "R02"}}

InitGlonass ==
    /\ pc = "glo_call"
    /\ glo_in \in GloInputs
    /\ glo_ret = NoCall
    /\ IdleIpp /\ IdleKepler /\ IdleAnomalies /\ IdleSatCoord

\* one call of pytecgg's glonass_satellite_coordinates
GlonassCoordinates ==
    /\ pc = "glo_call"
    /\ glo_in.variant = "pytecgg"
    /\ glo_ret' = glonass_satellite_coordinates(glo_in.ephem_dict, glo_in.sv_id,
                                               glo_in.delta_seconds)
    /\ pc' = "glo_done"
    /\ UNCHANGED <<glo_in, ipp_vars, kep_vars, anom_vars, sc_vars>>

\* one call of pytecal's glonass_satellite_coordinates
GlonassCoordinatesPytecal ==
    /\ pc = "glo_call"
    /\ glo_in.variant = "pytecal"
    /\ glo_ret' = glonass_satellite_coordinates_pytecal(glo_in.ephem_dict, glo_in.sv_id)
    /\ pc' = "glo_done"
    /\ UNCHANGED <<glo_in, ipp_vars, kep_vars, anom_vars, sc_vars>>

NextGlonass == GlonassCoordinates \/ GlonassCoordinatesPytecal

SpecGlonass == InitGlonass /\ [][NextGlonass]_vars

---------------------------------------------------------------------------
(* positions.py: _compute_time_elapsed                                     *)
(* a datetime is DateTime(s, aware): for an aware one s is the instant in  *)
(* s since 1970-01-01 UTC, for a naive one s is what its fields read, as   *)
(* if they were UTC                                                        *)

\* the instant of a naive datetime read as local time, local = UTC + tz
NaiveAsLocal(obs_time, tz) == obs_time.val - tz

\* obs_time.replace(tzinfo=datetime.timezone.utc)
NaiveAsUtc(obs_time, tz) == obs_time.val

\* return tk + 604800 if tk < 0 else tk
WeekWrap(tk) == IF tk < 0 THEN tk + 604800 ELSE tk

TimeReturn(tk) == [raised |-> "none", tk |-> tk]

TimeRaise(e) == [raised |-> e, tk |-> 0]

\* pytecal: _compute_time_elapsed(obs_time, toe); tz is the offset of the
\* local time zone of the process
_compute_time_elapsed(obs_time, toe, tz) ==
    IF obs_time.type # "datetime" THEN TimeRaise("TypeError")
    ELSE IF obs_time.aware THEN TimeReturn(WeekWrap(obs_time.val - toe))
    ELSE TimeReturn(WeekWrap(NaiveAsUtc(obs_time, tz) - toe))

\* pytec: a naive obs_time minus the aware fromtimestamp(toe, utc) raises
\* TypeError
compute_time_elapsed_pytec(obs_time, toe) ==
    IF obs_time.type # "datetime" THEN TimeRaise("TypeError")
    ELSE IF obs_time.aware THEN TimeReturn(WeekWrap(obs_time.val - toe))
    ELSE TimeRaise("TypeError")

---------------------------------------------------------------------------
(* pytecal/satellites/positions.py: satellite_coordinates                  *)
(* a record is a function from the keys it holds to None or a number       *)

\* the keys of GNSS_CONSTANTS
GNSS_CONSTANTS == {"GPS", "BeiDou", "GLONASS", "Galileo", "QZSS", "NavIC"}

\* the keys of REQUIRED_KEYS
REQUIRED_KEYS ==
    {"toe", "sqrta", "deltaN", "m0", "e", "omega", "cuc", "cus", "crc", "crs",
     "cic", "cis", "i0", "idot", "omega0", "omegaDot", "datetime"}

\* missing = [k for k in required_keys if k not in data or data[k] is None]
MissingKeys(data, required_keys) ==
    {k \in required_keys : k \notin DOMAIN data \/ data[k].is_none}

\* a validity check that looks only at the presence of the keys
IsEphemerisValidPresence(data, required_keys) ==
    \A k \in required_keys : k \in DOMAIN data

\* _is_ephemeris_valid: warns and returns False when missing is not empty
IsEphemerisValid(data, required_keys) == MissingKeys(data, required_keys) = {}

\* the statements of the try block, in order, with the keys each one reads
PropagationSteps ==
    <<[name |-> "A", keys |-> <<"sqrta">>],
      [name |-> "n0", keys |-> <<>>],
      [name |-> "tk", keys |-> <<"toe">>],
      [name |-> "n", keys |-> <<"deltaN">>],
      [name |-> "anomalies", keys |-> <<"e", "m0">>],
      [name |-> "Phik", keys |-> <<"omega">>],
      [name |-> "harmonics", keys |-> <<"cuc", "cus", "crc", "crs", "cic", "cis">>],
      [name |-> "uk", keys |-> <<>>],
      [name |-> "rk", keys |-> <<"e">>],
      [name |-> "ik", keys |-> <<"i0", "idot">>],
      [name |-> "lamk", keys |-> <<"omega0", "omegaDot", "toe">>],
      [name |-> "position", keys |-> <<>>]>>

\* if gnss_system == "BeiDou": if data["i0"] <= 20 * (math.pi / 180): ...
StepsFor(gnss_system) ==
    IF gnss_system = "BeiDou"
    THEN Append(PropagationSteps, [name |-> "geo", keys |-> <<"i0">>])
    ELSE PropagationSteps

\* what one statement raises: KeyError on data[k] of a key that is absent,
\* TypeError on arithmetic with None, ZeroDivisionError on gm / (A**3)
\* with A = 0, TypeError of _compute_time_elapsed on a computation_time
\* that is not a datetime, ValueError (math domain error) of
\* math.sqrt(1 - ecc**2) with |e| > 1 (e in thousandths)
StepRaises(data, ct, step) ==
    IF \E i \in 1..Len(step.keys) : step.keys[i] \notin DOMAIN data
    THEN "KeyError"
    ELSE IF \E i \in 1..Len(step.keys) : data[step.keys[i]].is_none
    THEN "TypeError"
    ELSE IF step.name = "n0" /\ data["sqrta"].val = 0
    THEN "ZeroDivisionError"
    ELSE IF step.name = "tk" /\ ct.type # "datetime"
    THEN "TypeError"
    ELSE IF step.name = "anomalies" /\ Abs(data["e"].val) > 1000
    THEN "ValueError"
    ELSE "none"

ScReturn(pos, aux, warned, steps) ==
    [raised |-> "none", msg |-> <<>>, pos |-> pos, aux |-> aux, warned |-> warned,
     steps |-> steps]

\* raise e(msg): msg lists what the message is formatted from
ScRaise(e, msg, warned, steps) ==
    [raised |-> e, msg |-> msg, pos |-> <<>>, aux |-> <<>>, warned |-> warned,
     steps |-> steps]

---------------------------------------------------------------------------
(* positions.py: the values computed by the try block                      *)
(* lengths in km (sqrta in km^(1/2)), e in thousandths, angles in fine     *)
(* units, rates (n, deltaN, idot, omegaDot, we) in 1e-8 rad/s, times in s  *)

\* rate * t in fine units, for |rate * t| below 2e9 / Scale * 1000
RateAngle(rate, t) == RoundDiv(RoundDiv(rate * Scale, 1000) * t, 100000)

\* 20 * (math.pi / 180)
Deg20 == RoundDiv(20 * PiF, 180)

\* math.radians(-5)
RadiansMinus5 == -RoundDiv(5 * PiF, 180)

\* GNSS_CONSTANTS[gnss_system].gm in km^3/s^2
GnssGm(gnss_system) ==
    IF gnss_system \in {"GPS", "QZSS", "NavIC"} THEN 398601 ELSE ConstGm

\* GNSS_CONSTANTS[gnss_system].we: 7.2921151467e-5 and 7.292115e-5 rad/s are
\* the same number of 1e-8 rad/s
GnssWe(gnss_system) == ConstWe

\* A = data["sqrta"] ** 2
OrbA(data) == data["sqrta"].val * data["sqrta"].val

\* n0 = math.sqrt(gm / (A**3))
OrbN0(gm, A) == RoundDiv(Isqrt(gm * 100) * 100000, RoundDiv(A * Isqrt(A), 100))

\* Mk, Ek, vk = _compute_anomalies(data["e"], data["m0"], n, tk)
OrbAnomalies(data, n, tk) ==
    AnomaliesFrom(data["e"].val, FMod(data["m0"].val + RateAngle(n, tk), TwoPiF))

\* c * cos2P + s * sin2P with sin2P, cos2P = sin(2 * Phik), cos(2 * Phik)
HarmonicTerm(c, s, Phik) == MulI(c, CosI(2 * Phik)) + MulI(s, SinI(2 * Phik))

\* returns delta_uk, delta_rk, delta_ik
_apply_harmonic_corrections(Phik, cuc, cus, crc, crs, cic, cis) ==
    <<HarmonicTerm(cuc, cus, Phik), HarmonicTerm(crc, crs, Phik),
      HarmonicTerm(cic, cis, Phik)>>

\* Phik = math.fmod(vk + data["omega"], 2 * math.pi)
OrbPhik(data, vk) == FMod(vk + data["omega"].val, TwoPiF)

\* rk = A * (1 - data["e"] * math.cos(Ek)) + delta_rk
OrbRk(data, A, Ek, delta_rk) ==
    A - MulI(RoundDiv(A * data["e"].val, 1000), CosI(Ek)) + delta_rk

\* lamk = math.fmod(omega0 + (omegaDot - we) * tk - we * toe, 2 * math.pi)
OrbLamk(data, we, tk) ==
    FMod(data["omega0"].val + RateAngle(data["omegaDot"].val - we, tk)
             - RateAngle(we, data["toe"].val), TwoPiF)

\* aux = [tk, Mk, Ek, vk, uk, rk, ik, lamk]
OrbCorrected(data, we, A, tk, an, Phik, delta) ==
    <<tk, an.Mk, an.Ek, an.vk,
      FMod(Phik + delta[1], TwoPiF),
      OrbRk(data, A, an.Ek, delta[2]),
      data["i0"].val + RateAngle(data["idot"].val, tk) + delta[3],
      OrbLamk(data, we, tk)>>

OrbHarmonics(data, we, A, tk, an, Phik) ==
    OrbCorrected(data, we, A, tk, an, Phik,
                 _apply_harmonic_corrections(Phik, data["cuc"].val, data["cus"].val,
                                             data["crc"].val, data["crs"].val,
                                             data["cic"].val, data["cis"].val))

OrbFromAnomalies(data, we, A, tk, an) ==
    OrbHarmonics(data, we, A, tk, an, OrbPhik(data, an.vk))

OrbFromA(data, gm, we, A, tk) ==
    OrbFromAnomalies(data, we, A, tk,
                     OrbAnomalies(data, OrbN0(gm, A) + data["deltaN"].val, tk))

ScAux(data, gnss_system, tk) ==
    OrbFromA(data, GnssGm(gnss_system), GnssWe(gnss_system), OrbA(data), tk)

\* the ECEF sums with the inclination left out of Yk
EcefFromPlaneFlat(xDash, yDash, ik, lamk) ==
    <<MulI(xDash, CosI(lamk)) - MulI(MulI(yDash, CosI(ik)), SinI(lamk)),
      MulI(xDash, SinI(lamk)) + MulI(yDash, CosI(lamk)),
      MulI(yDash, SinI(ik))>>

\* Xk, Yk, Zk from xDash, yDash = rk * cos(uk), rk * sin(uk)
EcefFromPlane(xDash, yDash, ik, lamk) ==
    <<MulI(xDash, CosI(lamk)) - MulI(MulI(yDash, CosI(ik)), SinI(lamk)),
      MulI(xDash, SinI(lamk)) + MulI(MulI(yDash, CosI(ik)), CosI(lamk)),
      MulI(yDash, SinI(ik))>>

Ecef(aux) ==
    EcefFromPlane(MulI(aux[6], CosI(aux[5])), MulI(aux[6], SinI(aux[5])),
                  aux[7], aux[8])

\* the same sums without the tilt of 5 degrees about the X axis
GeoRotateUntilted(X_GK, Y_GK, Z_GK, c, s, cos5, sin5) ==
    <<MulI(X_GK, c) + MulI(MulI(Y_GK, s), cos5) + MulI(MulI(Z_GK, s), sin5),
      -MulI(X_GK, s) + MulI(MulI(Y_GK, c), cos5) + MulI(MulI(Z_GK, c), sin5),
      Z_GK>>

\* the three sums of _apply_geo_correction, c and s the cosine and sine of
\* we * tk
GeoRotate(X_GK, Y_GK, Z_GK, c, s, cos5, sin5) ==
    <<MulI(X_GK, c) + MulI(MulI(Y_GK, s), cos5) + MulI(MulI(Z_GK, s), sin5),
      -MulI(X_GK, s) + MulI(MulI(Y_GK, c), cos5) + MulI(MulI(Z_GK, c), sin5),
      -MulI(Y_GK, sin5) + MulI(Z_GK, cos5)>>

_apply_geo_correction(Xk, Yk, Zk, tk, we) ==
    GeoRotate(Xk, Yk, Zk, CosI(RateAngle(we, tk)), SinI(RateAngle(we, tk)),
              CosI(RadiansMinus5), SinI(RadiansMinus5))

\* a GEO test that leaves the boundary out
GeoAppliesStrict(data, gnss_system) ==
    gnss_system = "BeiDou" /\ data["i0"].val < Deg20

\* if gnss_system == "BeiDou": if data["i0"] <= 20 * (math.pi / 180):
GeoApplies(data, gnss_system) ==
    gnss_system = "BeiDou" /\ data["i0"].val <= Deg20

GeoCorrected(P, tk, we) == _apply_geo_correction(P[1], P[2], P[3], tk, we)

\* pos = np.array([Xk, Yk, Zk], dtype=float)
ScPos(data, gnss_system, aux) ==
    IF GeoApplies(data, gnss_system)
    THEN GeoCorrected(Ecef(aux), aux[1], GnssWe(gnss_system))
    ELSE Ecef(aux)

\* the values returned when no statement of the try block raises
ScValues(data, gnss_system, tk, steps) ==
    ScReturn(ScPos(data, gnss_system, ScAux(data, gnss_system, tk)),
             ScAux(data, gnss_system, tk), FALSE, steps)

\* an except clause that lets the exception through as it is
WrapErrorNot(who, inner, steps) == ScRaise(inner, <<inner>>, FALSE, steps)

\* except Exception as e: raise RuntimeError(
\*     f"{gnss_system} position computation failed for {sv_id}: {str(e)}")
WrapError(who, inner, steps) ==
    ScRaise("RuntimeError", <<who[1], "position computation failed for", who[2], inner>>,
            FALSE, steps)

\* the try block: any exception becomes RuntimeError; otherwise pos has
\* the 3 coordinates and aux the 8 auxiliary variables (the time zone of
\* the process is taken as UTC)
RECURSIVE RunSteps(_, _, _, _, _, _)
RunSteps(data, ct, who, steps, i, done) ==
    IF i > Len(steps)
    THEN ScValues(data, who[1], _compute_time_elapsed(ct, data["toe"].val, 0).tk, done)
    ELSE IF StepRaises(data, ct, steps[i]) # "none"
    THEN WrapError(who, StepRaises(data, ct, steps[i]), Append(done, steps[i].name))
    ELSE RunSteps(data, ct, who, steps, i + 1, Append(done, steps[i].name))

\* computation_time = obs_time if obs_time is not None else data["datetime"]
ScPropagate(data, who, obs_time) ==
    IF obs_time.is_none /\ "datetime" \notin DOMAIN data
    THEN ScRaise("KeyError", <<"datetime">>, FALSE, <<>>)
    ELSE RunSteps(data, IF obs_time.is_none THEN data["datetime"] ELSE obs_time,
                  who, StepsFor(who[1]), 1, <<>>)

ScValidated(data, who, obs_time) ==
    IF ~IsEphemerisValid(data, REQUIRED_KEYS)
    THEN ScReturn(<<>>, <<>>, TRUE, <<>>)
    ELSE ScPropagate(data, who, obs_time)

\* a lookup that answers an unknown satellite with the undefined result
SatelliteCoordinatesLenient(ephem_dict, sv_id, gnss_system, obs_time) ==
    IF gnss_system \notin GNSS_CONSTANTS
    THEN ScRaise("ValueError", <<"Unsupported GNSS system">>, FALSE, <<>>)
    ELSE IF sv_id \notin DOMAIN ephem_dict
    THEN ScReturn(<<>>, <<>>, TRUE, <<>>)
    ELSE ScValidated(ephem_dict[sv_id], <<gnss_system, sv_id>>, obs_time)

\* under the default warnings filter, where warnings.warn does not raise
satellite_coordinates(ephem_dict, sv_id, gnss_system, obs_time) ==
    IF gnss_system \notin GNSS_CONSTANTS
    THEN ScRaise("ValueError", <<"Unsupported GNSS system">>, FALSE, <<>>)
    ELSE IF sv_id \notin DOMAIN ephem_dict
    THEN ScRaise("KeyError", <<sv_id>>, FALSE, <<>>)
    ELSE ScValidated(ephem_dict[sv_id], <<gnss_system, sv_id>>, obs_time)

\* pytec: except Exception as e:
\*     raise RuntimeError(f"Error computing position for {fieldname}: {str(e)}")
BdsWrapped(r, fieldname) ==
    IF r.raised = "RuntimeError"
    THEN [r EXCEPT !.msg = <<"Error computing position for", fieldname, r.msg[4]>>]
    ELSE r

\* pytec: _validate_ephemeris raises ValueError; the try block follows
BdsValidated(data, fieldname) ==
    IF MissingKeys(data, REQUIRED_KEYS) # {}
    THEN ScRaise("ValueError", <<"Missing parameters">>, FALSE, <<>>)
    ELSE BdsWrapped(RunSteps(data, data["datetime"], <<"BeiDou", fieldname>>,
                             StepsFor("BeiDou"), 1, <<>>), fieldname)

\* pytec: get_sat_pos_bds(ephem_dict, fieldname)
get_sat_pos_bds(ephem_dict, fieldname) ==
    IF fieldname \notin DOMAIN ephem_dict
    THEN ScRaise("KeyError", <<fieldname>>, FALSE, <<>>)
    ELSE BdsValidated(ephem_dict[fieldname], fieldname)

\* keys outside the required set that a record may hold
OptionalKeys == {"health", "geo"}

\* records: every required key with a number, but for at most MaxMissing
\* keys that are absent or None, and any of the optional keys
ScFlawSets == {f \in SUBSET REQUIRED_KEYS : Cardinality(f) <= MaxMissing}

ScRecord(absent, none, opt, optval, sqrta) ==
    [k \in (REQUIRED_KEYS \ absent) \cup opt |->
        IF k \in none THEN None
        ELSE IF k \in opt THEN optval
        ELSE IF k = "sqrta" THEN Num(sqrta)
        ELSE IF k = "datetime" THEN DateTime(1, TRUE)
        ELSE Num(1)]

\* complete records that make a statement of the try block raise: sqrta = 0,
\* e = 1.5, a datetime that is a string
ScOddRecords ==
    {ScRecord({}, {}, {}, None, 0),
     [ScRecord({}, {}, {}, None, 163) EXCEPT !["e"] = Num(1500)],
     [ScRecord({}, {}, {}, None, 163) EXCEPT !["datetime"] = Text],
     [ScRecord({}, {}, {}, None, 0) EXCEPT !["e"] = Num(-1500)]}

ScRecords ==
    UNION {{ScRecord(f \ n, n, {}, None, 163) : n \in SUBSET f} : f \in ScFlawSets}
    \cup UNION {{ScRecord(f \ n, n, OptionalKeys, None, 163) : n \in SUBSET f} :
                    f \in ScFlawSets}
    \cup {ScRecord(f, {}, {"geo"}, Num(1), 0) : f \in ScFlawSets}

ScInputs ==
    {[fn |-> "satellite_coordinates",
      ephem_dict |-> [id \in {"G01"} |-> d], sv_id |-> "G01", gnss_system |-> g,
      obs_time |-> t] :
        d \in ScRecords, g \in {"GPS", "BeiDou"}, t \in {None, DateTime(2, TRUE)}}
    \cup
    {[fn |-> "satellite_coordinates",
      ephem_dict |-> [id \in {"G01"} |-> d], sv_id |-> "G01", gnss_system |-> g,
      obs_time |-> t] :
        d \in ScOddRecords \cup {ScRecord({}, {}, {}, None, 163)},
        g \in {"GPS", "BeiDou", "Galileo", "QZSS"},
        t \in {None, DateTime(2, TRUE), DateTime(2, FALSE), Text, Num(3)}}
    \cup
    {[fn |-> "satellite_coordinates",
      ephem_dict |-> [id \in {"G01"} |-> d], sv_id |-> sv, gnss_system |-> g,
      obs_time |-> None] :
        d \in {ScRecord({}, {}, {}, None, 163), ScRecord({"toe"}, {}, {}, None, 163)},
        sv \in {"G01", "G02"}, g \in {"GPS", "GLONASS", "NavIC", "SBAS"}}
    \cup
    {[fn |-> "get_sat_pos_bds",
      ephem_dict |-> [id \in {"G01"} |-> d], sv_id |-> sv, gnss_system |-> "BeiDou",
      obs_time |-> None] :
        d \in ScOddRecords
               \cup {ScRecord({}, {}, {}, None, 163), ScRecord({"toe"}, {}, {}, None, 163),
                     ScRecord({"datetime"}, {}, {}, None, 163),
                     ScRecord({}, {"i0"}, OptionalKeys, None, 163)},
        sv \in {"G01", "G02"}}

InitSatCoord ==
    /\ pc = "sc_call"
    /\ sc_in \in ScInputs
    /\ sc_ret = NoCall
    /\ IdleIpp /\ IdleKepler /\ IdleAnomalies /\ IdleGlonass

\* one call of satellite_coordinates
SatelliteCoordinates ==
    /\ pc = "sc_call"
    /\ sc_in.fn = "satellite_coordinates"
    /\ sc_ret' = satellite_coordinates(sc_in.ephem_dict, sc_in.sv_id,
                                       sc_in.gnss_system, sc_in.obs_time)
    /\ pc' = "sc_done"
    /\ UNCHANGED <<sc_in, ipp_vars, kep_vars, anom_vars, glo_vars>>

\* one call of pytec's get_sat_pos_bds
GetSatPosBds ==
    /\ pc = "sc_call"
    /\ sc_in.fn = "get_sat_pos_bds"
    /\ sc_ret' = get_sat_pos_bds(sc_in.ephem_dict, sc_in.sv_id)
    /\ pc' = "sc_done"
    /\ UNCHANGED <<sc_in, ipp_vars, kep_vars, anom_vars, glo_vars>>

NextSatCoord == SatelliteCoordinates \/ GetSatPosBds

SpecSatCoord == InitSatCoord /\ [][NextSatCoord]_vars

\* one call of any of the propagators
InitPropagators == InitSatCoord \/ InitGlonass

NextPropagators == NextSatCoord \/ NextGlonass

SpecPropagators == InitPropagators /\ [][NextPropagators]_vars

---------------------------------------------------------------------------
(* calls of satellite_coordinates and get_sat_pos_bds on complete records  *)
(* with the elements of GPS-like and BeiDou-like orbits                    *)

\* sqrt(26569 km), sqrt(42025 km)
OrbSqrtaSet == {163, 205}

\* eccentricities 0, 0.01, 0.08
OrbEccSet == {0, 10, 80}

OrbM0Set == {-2000, 0, 1000}

\* crc, crs in km
OrbRadialSet == {<<0, 0>>, <<3, -2>>}

\* 0, 20 degrees, the next value above 20 degrees, 55 degrees
OrbI0Set == {0, Deg20, Deg20 + 1, RoundDiv(55 * PiF, 180)}

\* obs_time - toe in s
OrbElapsedSet == {-604000, 0, 3600, 21541}

OrbToe == 86400

OrbRecord(sqrta, ecc, m0, cr, i0, d) ==
    [k \in REQUIRED_KEYS |->
        CASE k = "toe" -> Num(OrbToe)
          [] k = "sqrta" -> Num(sqrta)
          [] k = "deltaN" -> Num(1)
          [] k = "m0" -> Num(m0)
          [] k = "e" -> Num(ecc)
          [] k = "omega" -> Num(500)
          [] k = "cuc" -> Num(2)
          [] k = "cus" -> Num(-1)
          [] k = "crc" -> Num(cr[1])
          [] k = "crs" -> Num(cr[2])
          [] k = "cic" -> Num(1)
          [] k = "cis" -> Num(1)
          [] k = "i0" -> Num(i0)
          [] k = "idot" -> Num(1)
          [] k = "omega0" -> Num(2000)
          [] k = "omegaDot" -> Num(-1)
          [] OTHER -> DateTime(OrbToe + d, TRUE)]

OrbRecords ==
    {OrbRecord(sqrta, ecc, m0, cr, i0, d) :
        sqrta \in OrbSqrtaSet, ecc \in OrbEccSet, m0 \in OrbM0Set,
        cr \in OrbRadialSet, i0 \in OrbI0Set, d \in OrbElapsedSet}

OrbInputs ==
    {[fn |-> "satellite_coordinates",
      ephem_dict |-> [id \in {"C01"} |-> d], sv_id |-> "C01", gnss_system |-> g,
      obs_time |-> None] :
        d \in OrbRecords, g \in {"GPS", "BeiDou", "Galileo", "QZSS"}}
    \cup
    {[fn |-> "get_sat_pos_bds",
      ephem_dict |-> [id \in {"C01"} |-> d], sv_id |-> "C01",
      gnss_system |-> "BeiDou", obs_time |-> None] : d \in OrbRecords}

InitOrbit ==
    /\ pc = "sc_call"
    /\ sc_in \in OrbInputs
    /\ sc_ret = NoCall
    /\ IdleIpp /\ IdleKepler /\ IdleAnomalies /\ IdleGlonass

SpecOrbit == InitOrbit /\ [][NextSatCoord]_vars

---------------------------------------------------------------------------
(* calls of _apply_geo_correction                                          *)

\* components in km
GeoCompSet == {-20000, 0, 1, 7000, 26000}

\* tk in s: 21541 is pi / (2 * we) for the we of GPS
GeoTkSet == {0, 900, 21541, 43082}

\* we in 1e-8 rad/s: 0, the we of GPS, 1e-4 rad/s
GeoWeSet == {0, ConstWe, 10000}

GeoInputs ==
    {[fn |-> "_apply_geo_correction", Xk |-> x, Yk |-> y, Zk |-> z, tk |-> t,
      we |-> w] :
        x \in GeoCompSet \cup {Scale}, y \in GeoCompSet, z \in GeoCompSet,
        t \in GeoTkSet, w \in GeoWeSet}

InitGeo ==
    /\ pc = "geo_call"
    /\ sc_in \in GeoInputs
    /\ sc_ret = NoCall
    /\ IdleIpp /\ IdleKepler /\ IdleAnomalies /\ IdleGlonass

\* one call of _apply_geo_correction
ApplyGeoCorrection ==
    /\ pc = "geo_call"
    /\ sc_ret' = _apply_geo_correction(sc_in.Xk, sc_in.Yk, sc_in.Zk, sc_in.tk, sc_in.we)
    /\ pc' = "geo_done"
    /\ UNCHANGED <<sc_in, ipp_vars, kep_vars, anom_vars, glo_vars>>

NextGeo == ApplyGeoCorrection

SpecGeo == InitGeo /\ [][NextGeo]_vars

---------------------------------------------------------------------------
(* calls of _compute_time_elapsed                                          *)

ToeSet == {0, 1000000, 1693526400}

ElapsedSet ==
    {-700000, -604801, -604800, -604799, -1, 0, 1, 604799, 604800, 700000}

TzSet == {-18000, 0, 3600}

TimeInputs ==
    {[fn |-> f, obs_time |-> DateTime(toe + d, a), toe |-> toe, tz |-> tz] :
        f \in {"_compute_time_elapsed", "pytec._compute_time_elapsed"},
        toe \in ToeSet, d \in ElapsedSet, a \in BOOLEAN, tz \in TzSet}
    \cup
    {[fn |-> f, obs_time |-> o, toe |-> toe, tz |-> 0] :
        f \in {"_compute_time_elapsed", "pytec._compute_time_elapsed"},
        toe \in ToeSet, o \in {None, Text, Num(5)}}

InitTimeElapsed ==
    /\ pc = "time_call"
    /\ sc_in \in TimeInputs
    /\ sc_ret = NoCall
    /\ IdleIpp /\ IdleKepler /\ IdleAnomalies /\ IdleGlonass

\* one call of pytecal's _compute_time_elapsed
ComputeTimeElapsed ==
    /\ pc = "time_call"
    /\ sc_in.fn = "_compute_time_elapsed"
    /\ sc_ret' = _compute_time_elapsed(sc_in.obs_time, sc_in.toe, sc_in.tz)
    /\ pc' = "time_done"
    /\ UNCHANGED <<sc_in, ipp_vars, kep_vars, anom_vars, glo_vars>>

\* one call of pytec's _compute_time_elapsed
ComputeTimeElapsedPytec ==
    /\ pc = "time_call"
    /\ sc_in.fn = "pytec._compute_time_elapsed"
    /\ sc_ret' = compute_time_elapsed_pytec(sc_in.obs_time, sc_in.toe)
    /\ pc' = "time_done"
    /\ UNCHANGED <<sc_in, ipp_vars, kep_vars, anom_vars, glo_vars>>

NextTimeElapsed == ComputeTimeElapsed \/ ComputeTimeElapsedPytec

SpecTimeElapsed == InitTimeElapsed /\ [][NextTimeElapsed]_vars

---------------------------------------------------------------------------
(* a session: calls of kepler, satellite_coordinates,                      *)
(* glonass_satellite_coordinates and calculate_ipp one after the other in  *)
(* one process, on one ephem_dict.  sc_in holds what outlives a call: the  *)
(* ephem_dict the caller keeps passing, the registry of the warnings       *)
(* module (the warnings already shown), what pymap3d gives as the latitude *)
(* of the origin, and the calls made so far; sc_ret holds what the latest  *)
(* call returned or raised                                                 *)

\* the ephem_dict of the session: a sound GPS record, one without toe, one
\* with sqrta = 0, a sound GLONASS record and one without velY
SessionEphemDict ==
    [id \in {"G01", "G02", "G03", "R01", "R02"} |->
        CASE id = "G01" -> OrbRecord(163, 10, 1000, <<3, -2>>, RoundDiv(55 * PiF, 180), 3600)
          [] id = "G02" -> ScRecord({"toe"}, {}, {}, None, 163)
          [] id = "G03" -> ScRecord({}, {}, {}, None, 0)
          [] id = "R01" -> GloRecord(<<10000, -20000, 12000>>, <<1, 3, -2>>,
                                     <<None, Num(2), Num(-1)>>, 1693571400, 1693571700)
          [] OTHER -> Without(GloRecord(<<25500, 0, 0>>, <<1, 3, -2>>,
                                        <<Num(0), Num(0), Num(0)>>, 1693571400,
                                        1693571700), "velY")]

SessionKeplerCalls ==
    {[fn |-> "kepler", e |-> ecc, mk |-> mk, tol |-> tol] :
        ecc \in {10, 500}, mk \in {-2630, 1052}, tol \in {1, 4000}}

SessionScCalls ==
    {[fn |-> "satellite_coordinates", sv_id |-> sv, gnss_system |-> g] :
        sv \in {"G01", "G02", "G03", "G09", "R01"}, g \in {"GPS", "GLONASS", "SBAS"}}

SessionGloCalls ==
    {[fn |-> "glonass_satellite_coordinates", sv_id |-> sv, delta_seconds |-> d] :
        sv \in {"R01", "R02", "R09", "G01"}, d \in {0, 300}}

SessionIppCalls ==
    {[fn |-> "calculate_ipp", rec_ecef |-> r, sat_ecef_array |-> s, h_ipp |-> 1] :
        r \in {<<0, 0, 6>>, <<0, 0, 0>>},
        s \in {<<Row(6, 6, 3)>>, <<Row(2, 0, 0), <<NaN, F(0), NaN>>>>}}

\* the number of calls of a session
MaxCalls == 3

\* an ephem_dict from which a call that raised has dropped every record
EphemDictCleared(ephem_dict, call, raised) ==
    IF raised THEN [id \in {} |-> None] ELSE ephem_dict

\* no function writes to the ephem_dict it is given
EphemDictAfter(ephem_dict, call, raised) == ephem_dict

\* warnings.warn under the default filter: the text of the warning (the
\* list of missing keys) enters the registry of the module, and a warning
\* whose text is in the registry is not shown again
RegistryAfter(registry, data, warned) ==
    IF warned THEN registry \cup {MissingKeys(data, REQUIRED_KEYS)} ELSE registry

SessionStep(call, outcome, ephem_dict, registry) ==
    [sc_in EXCEPT !.call = call,
                  !.history = Append(@, [fn |-> call.fn, outcome |-> outcome]),
                  !.ephem_dict = ephem_dict,
                  !.registry = registry]

\* what the call of a kepler-based or GLONASS propagator came to
OutcomeOf(r) ==
    IF r.raised # "none" THEN "raised"
    ELSE IF r.pos = <<>> THEN "undefined"
    ELSE "returned"

\* the latitude pymap3d gives for the receiver when it is the origin
SessionLat0(c, lat0) == IF c.rec_ecef = <<0, 0, 0>> THEN lat0 ELSE F(0)

IppReturn(r) == [lat_ipp |-> r.lat_ipp, lon_ipp |-> r.lon_ipp, azi |-> r.azi, ele |-> r.ele]

InitSession ==
    /\ pc = "session"
    /\ sc_in \in {[fn |-> "session", ephem_dict |-> SessionEphemDict, registry |-> {},
                   origin_lat |-> l0, history |-> <<>>, call |-> NoCall] :
                      l0 \in {NaN, F(0)}}
    /\ sc_ret = NoCall
    /\ IdleIpp /\ IdleKepler /\ IdleAnomalies /\ IdleGlonass

\* a call of kepler: it returns, or it never does and the session ends
SessionKepler ==
    /\ pc = "session"
    /\ Len(sc_in.history) < MaxCalls
    /\ \E c \in SessionKeplerCalls :
           /\ sc_ret' = kepler(c.e, c.mk, c.tol)
           /\ pc' = IF kepler(c.e, c.mk, c.tol).hang THEN "session_hung" ELSE "session"
           /\ sc_in' = SessionStep(c, IF kepler(c.e, c.mk, c.tol).hang THEN "hung"
                                      ELSE "returned",
                                   sc_in.ephem_dict, sc_in.registry)
    /\ UNCHANGED <<ipp_vars, kep_vars, anom_vars, glo_vars>>

\* a call of satellite_coordinates on the ephem_dict of the session
SessionSatelliteCoordinates ==
    /\ pc = "session"
    /\ Len(sc_in.history) < MaxCalls
    /\ \E c \in SessionScCalls :
           /\ sc_ret' = satellite_coordinates(sc_in.ephem_dict, c.sv_id,
                                              c.gnss_system, None)
           /\ sc_in' = SessionStep(
                  c, OutcomeOf(sc_ret'),
                  EphemDictAfter(sc_in.ephem_dict, c, sc_ret'.raised # "none"),
                  IF c.sv_id \in DOMAIN sc_in.ephem_dict
                  THEN RegistryAfter(sc_in.registry, sc_in.ephem_dict[c.sv_id],
                                     sc_ret'.warned)
                  ELSE sc_in.registry)
    /\ UNCHANGED <<pc, ipp_vars, kep_vars, anom_vars, glo_vars>>

\* a call of glonass_satellite_coordinates on the ephem_dict of the session
SessionGlonass ==
    /\ pc = "session"
    /\ Len(sc_in.history) < MaxCalls
    /\ \E c \in SessionGloCalls :
           /\ sc_ret' = glonass_satellite_coordinates(sc_in.ephem_dict, c.sv_id,
                                                      c.delta_seconds)
           /\ sc_in' = SessionStep(
                  c, IF sc_ret'.raised # "none" THEN "raised" ELSE "returned",
                  EphemDictAfter(sc_in.ephem_dict, c, sc_ret'.raised # "none"),
                  sc_in.registry)
    /\ UNCHANGED <<pc, ipp_vars, kep_vars, anom_vars, glo_vars>>

\* a call of calculate_ipp
SessionIpp ==
    /\ pc = "session"
    /\ Len(sc_in.history) < MaxCalls
    /\ \E c \in SessionIppCalls :
           /\ sc_ret' = IppReturn(calculate_ipp(c.rec_ecef, c.sat_ecef_array, c.h_ipp,
                                               <<>>, SessionLat0(c, sc_in.origin_lat)))
           /\ sc_in' = SessionStep(c, "returned", sc_in.ephem_dict, sc_in.registry)
    /\ UNCHANGED <<pc, ipp_vars, kep_vars, anom_vars, glo_vars>>

NextSession ==
    SessionKepler \/ SessionSatelliteCoordinates \/ SessionGlonass \/ SessionIpp

SpecSession == InitSession /\ [][NextSession]_vars

---------------------------------------------------------------------------
(* Properties of calculate_ipp                                             *)

IppRows == 1..Len(ipp_in.sat_ecef_array)

RowFinite(i) == \A k \in 1..3 : ~IsNaN(ipp_in.sat_ecef_array[i][k])

SatAt(i) == <<ipp_in.sat_ecef_array[i][1].v, ipp_in.sat_ecef_array[i][2].v,
              ipp_in.sat_ecef_array[i][3].v>>

Dot(u, w) == u[1] * w[1] + u[2] * w[2] + u[3] * w[3]

Diff(u, w) == <<u[1] - w[1], u[2] - w[2], u[3] - w[3]>>

\* square of the shell radius RE + h_ipp
ShellR2 == (RE + ipp_in.h_ipp) * (RE + ipp_in.h_ipp)

\* a = |sat - rec|^2, b = 2 (sat - rec).rec, c = |rec|^2 - (RE + h_ipp)^2
CoefA(i) == Dot(Diff(SatAt(i), ipp_in.rec_ecef), Diff(SatAt(i), ipp_in.rec_ecef))

CoefB(i) == 2 * Dot(Diff(SatAt(i), ipp_in.rec_ecef), ipp_in.rec_ecef)

CoefC == Dot(ipp_in.rec_ecef, ipp_in.rec_ecef) - ShellR2

CoefD(i) == CoefB(i) * CoefB(i) - 4 * CoefA(i) * CoefC

\* a*t^2 + b*t + c, a > 0, has a real root in [0, 1]: the discriminant is
\* not negative and either the polynomial changes sign on [0, 1], or it is
\* positive at both ends with its vertex between them
RootIn01(a, b, c) ==
    /\ b * b - 4 * a * c >= 0
    /\ \/ c * (a + b + c) <= 0
       \/ c > 0 /\ a + b + c > 0 /\ 0 <= -b /\ -b <= 2 * a

\* 0 <= (p + q*sqrt(D)) / r <= 1 for q = 1 or q = -1, D >= 0, r > 0
InUnit(p, q, D, r) ==
    IF q = 1
    THEN (p >= 0 \/ D >= p * p) /\ r - p >= 0 /\ D <= (r - p) * (r - p)
    ELSE p >= 0 /\ D <= p * p /\ (p - r <= 0 \/ (p - r) * (p - r) <= D)

\* all four outputs of entry i are NaN
EntryUndefined(i) ==
    /\ IsNaN(ipp_ret.lat_ipp[i]) /\ IsNaN(ipp_ret.lon_ipp[i])
    /\ IsNaN(ipp_ret.azi[i]) /\ IsNaN(ipp_ret.ele[i])

\* t is a root of the quadratic of entry i, lies in [0, 1], no root in
\* [0, 1] is smaller, and P = rec + t * (sat - rec)
PierceAt(i, t, P) ==
    /\ ~t.isnan
    /\ t.p = -CoefB(i) /\ t.q \in {1, -1} /\ t.D = CoefD(i) /\ t.r = 2 * CoefA(i)
    /\ InUnit(t.p, t.q, t.D, t.r)
    /\ InUnit(t.p, -t.q, t.D, t.r) => (t.q = -1 \/ t.D = 0)
    /\ \A k \in 1..3 :
          /\ ~P[k].isnan /\ P[k].D = t.D /\ P[k].r = t.r
          /\ P[k].p = ipp_in.rec_ecef[k] * t.r
                      + (SatAt(i)[k] - ipp_in.rec_ecef[k]) * t.p
          /\ P[k].q = (SatAt(i)[k] - ipp_in.rec_ecef[k]) * t.q

\* entry i was computed as the k-th valid pierce point
EntryPierce(i) ==
    \E k \in 1..Len(ipp_loc.idx_out) :
        /\ ipp_loc.idx_out[k] = i
        /\ PierceAt(i, ipp_loc.tv[k],
                    <<ipp_loc.x_ipp[k], ipp_loc.y_ipp[k], ipp_loc.z_ipp[k]>>)

\* C1: in the vectorised calculate_ipp an entry with finite coordinates is
\* undefined (latitude, longitude, azimuth and elevation all NaN) exactly
\* when the discriminant is negative or no root of a*t^2 + b*t + c lies in
\* [0, 1]; otherwise its pierce point is rec + t*(sat - rec) with t the
\* smallest root in [0, 1]; an entry with receiver and satellite both
\* strictly inside the shell sphere is undefined
IppSmallestRootInRange ==
    pc = "ipp_done" =>
        \A i \in IppRows : RowFinite(i) =>
            /\ EntryUndefined(i) <=>
                   ~(CoefA(i) > 0 /\ RootIn01(CoefA(i), CoefB(i), CoefC))
            /\ ~EntryUndefined(i) => EntryPierce(i)
            /\ (CoefC < 0 /\ Dot(SatAt(i), SatAt(i)) < ShellR2)
                   => EntryUndefined(i)

\* a finite entry whose line of sight crosses the shell twice between the
\* receiver and the satellite was computed, and is defined
IppTwoCrossingsSeen ==
    /\ pc = "ipp_done"
    /\ \E i \in IppRows :
          /\ RowFinite(i) /\ CoefA(i) > 0 /\ CoefD(i) > 0
          /\ InUnit(-CoefB(i), 1, CoefD(i), 2 * CoefA(i))
          /\ InUnit(-CoefB(i), -1, CoefD(i), 2 * CoefA(i))
          /\ ~EntryUndefined(i)

\* the result of the vectorised call on entry i alone
AloneRet(i) ==
    calculate_ipp(ipp_in.rec_ecef, <<ipp_in.sat_ecef_array[i]>>, ipp_in.h_ipp,
                  ipp_in.rec_geodetic, ipp_in.origin_lat)

\* C9: calculate_ipp returns (never raises) when a satellite position has NaN
\* in one or more coordinates: that entry's four outputs are NaN in the
\* vectorised version and None in the scalar one, and every other entry of a
\* vectorised call gets exactly the result it gets when passed alone
IppNaNEntryIsolated ==
    /\ pc = "ipp_done" =>
          \A i \in IppRows :
              /\ Len(ipp_ret.lat_ipp) = Len(ipp_in.sat_ecef_array)
              /\ ~RowFinite(i) => EntryUndefined(i)
              /\ RowFinite(i) =>
                    /\ ipp_ret.lat_ipp[i] = AloneRet(i).lat_ipp[1]
                    /\ ipp_ret.lon_ipp[i] = AloneRet(i).lon_ipp[1]
                    /\ ipp_ret.azi[i] = AloneRet(i).azi[1]
                    /\ ipp_ret.ele[i] = AloneRet(i).ele[1]
    /\ (pc = "ipp1_done" /\ ~RowFinite(1)) =>
          (ipp_ret.none /\ ipp_loc.branch = "nan")

\* a call whose first entry has a NaN coordinate and whose second entry is
\* defined was computed
IppNaNBesideDefinedSeen ==
    /\ pc = "ipp_done"
    /\ Len(ipp_in.sat_ecef_array) = 2
    /\ ~RowFinite(1) /\ RowFinite(2) /\ ~EntryUndefined(2)

\* entry i: a receiver strictly inside the shell sphere (and not at the
\* Earth's centre, where there is no horizon), a satellite on or outside
\* the sphere and not below the receiver's horizon
Visible(i) ==
    /\ RowFinite(i)
    /\ Dot(ipp_in.rec_ecef, ipp_in.rec_ecef) > 0
    /\ CoefC < 0
    /\ Dot(SatAt(i), SatAt(i)) >= ShellR2
    /\ Dot(Diff(SatAt(i), ipp_in.rec_ecef), ipp_in.rec_ecef) >= 0

\* |P|^2 * r^2 for P = ((p_k + q_k*sqrt(D)) / r): rational part and the
\* coefficient of sqrt(D)
Norm2Rat(P) ==
    P[1].p * P[1].p + P[2].p * P[2].p + P[3].p * P[3].p
    + (P[1].q * P[1].q + P[2].q * P[2].q + P[3].q * P[3].q) * P[1].D

Norm2Irr(P) == P[1].p * P[1].q + P[2].p * P[2].q + P[3].p * P[3].q

OnShell(P) ==
    /\ Norm2Irr(P) = 0
    /\ Norm2Rat(P) = ShellR2 * P[1].r * P[1].r

InRange(x, lo, hi) == ~IsNaN(x) /\ lo <= x.v /\ x.v <= hi

---------------------------------------------------------------------------
(* Properties of kepler                                                    *)

\* |Ek - e*sin(Ek) - Mk| of the value in e_curr, in fine units
KeplerResidual == Abs(e_curr - ESin(kep_in.e, e_curr) - kep_in.mk)

\* C3, as stated: the value returned by kepler(e, Mk, tol) satisfies
\* |Ek - e*sin(Ek) - Mk| <= tol*pi/648000, for every e in [0, 0.999], every
\* Mk and every tol > 0
KeplerResidualWithinTol ==
    pc = "kepler_done" => KeplerResidual <= TolRad(kep_in.tol)

\* C3, amended: the residual of the returned value is at most
\* tol*pi/648000 plus the rounding of the sum Mk + e*sin(E), two spacings
\* of the values of E
KeplerResidualWithinTolAndRounding ==
    pc = "kepler_done" => KeplerResidual <= TolRad(kep_in.tol) + 2 * Ulp

\* kepler returned after the loop ran, for an eccentric orbit and a
\* tolerance below the spacing of the values of E
KeplerReturnedSeen ==
    /\ pc = "kepler_done"
    /\ kep_in.e = 999 /\ kep_n >= 2
    /\ TolRad(kep_in.tol) < Ulp
    /\ KeplerResidual > 0

\* C4: for every e in [0, 1), every finite Mk and every tol > 0 the
\* while-loop of kepler exits after finitely many iterations
KeplerTerminates == <>(pc = "kepler_done")

\* C5: kepler(0, Mk, tol) returns exactly Mk and never executes the loop
\* body, for any Mk and any tol > 0
KeplerCircularOrbit ==
    (pc \in {"kepler_while", "kepler_done"} /\ kep_in.e = 0) =>
        /\ e_curr = kep_in.mk
        /\ kep_n = 0
        /\ ~KeplerCond(e_prev, e_curr, kep_in.tol)

\* kepler returned for a circular orbit, a negative mean anomaly and the
\* smallest tolerance
KeplerCircularSeen ==
    /\ pc = "kepler_done"
    /\ kep_in.e = 0 /\ kep_in.mk < 0 /\ TolRad(kep_in.tol) = 0

---------------------------------------------------------------------------
(* Properties of _compute_anomalies                                        *)

InTurn(x) == 0 <= x /\ x < TwoPiF

\* C6: for every eccentricity in [0, 1) and all finite M0, n, tk,
\* _compute_anomalies returns Mk, Ek and vk each in [0, 2*pi)
AnomaliesInTurn ==
    pc = "anom_done" =>
        InTurn(anom_ret.Mk) /\ InTurn(anom_ret.Ek) /\ InTurn(anom_ret.vk)

---------------------------------------------------------------------------
(* Properties of glonass_satellite_coordinates                             *)

GloReturned == pc = "glo_done" /\ glo_ret # NoCall /\ glo_ret.raised = "none"

\* the signed elapsed time from the reference epoch to the target
GloData == GloFields(glo_in.ephem_dict[glo_in.sv_id])

GloDt ==
    IF glo_in.variant = "pytecgg" THEN glo_in.delta_seconds
    ELSE GloData.datetime - GloData.gps_seconds

\* the supplied accelerations of a record that was propagated
GloAe ==
    Times1000(<<ZeroIfNone(GloData.accel[1]), ZeroIfNone(GloData.accel[2]),
                ZeroIfNone(GloData.accel[3])>>)

Transpose(M) == [i \in 1..3 |-> [j \in 1..3 |-> M[j][i]]]

\* C7: with the target before the reference epoch (dt < 0) the reference
\* state is the state at integration time 0, the integration runs from 0 to
\* the signed dt, and the position returned is the rotation to ECEF of the
\* state at the target time, in both variants.
GlonassBackwardReachesTarget ==
    (GloReturned /\ GloDt < 0) =>
        /\ glo_ret.t_span = <<0, GloDt>>
        /\ glo_ret.inertial_pos = Integrate(glo_ret.initial_state, GloAe, 0, GloDt).r
        /\ glo_ret.pos = MatVec(RotMatrixObs(glo_ret.theta_gi),
                                Integrate(glo_ret.initial_state, GloAe, 0, GloDt).r)

---------------------------------------------------------------------------
(* Properties of satellite_coordinates                                     *)

\* the required keys as the specification lists them
SeventeenKeys ==
    {"toe", "sqrta", "deltaN", "m0", "e", "omega", "cuc", "cus", "crc", "crs",
     "cic", "cis", "i0", "idot", "omega0", "omegaDot", "datetime"}

ScData == sc_in.ephem_dict[sc_in.sv_id]

\* a call that is over, of a supported system and a satellite of ephem_dict
ScCalled ==
    /\ pc = "sc_done"
    /\ sc_in.fn = "satellite_coordinates"
    /\ sc_in.gnss_system \in GNSS_CONSTANTS
    /\ sc_in.sv_id \in DOMAIN sc_in.ephem_dict

ScLacks(k) == k \notin DOMAIN ScData \/ ScData[k].is_none

\* C2: a call with a supported system and a known satellite whose record
\* lacks one of the 17 required keys, or holds None for it, returns two
\* empty arrays, raises nothing and runs no propagation step, also when
\* obs_time is passed and only datetime is missing; a record that holds all
\* 17 with values is not reported invalid, whatever other keys it lacks.
SatCoordInvalidRecordEmpty ==
    ScCalled =>
        /\ (\E k \in SeventeenKeys : ScLacks(k)) =>
               /\ sc_ret.raised = "none"
               /\ sc_ret.pos = <<>> /\ sc_ret.aux = <<>>
               /\ sc_ret.steps = <<>>
        /\ (\A k \in SeventeenKeys : ~ScLacks(k)) =>
               /\ ~sc_ret.warned
               /\ sc_ret.steps # <<>>

\* a call with obs_time passed, of a record that lacks datetime alone, has
\* returned
SatCoordOnlyDatetimeMissingSeen ==
    /\ ScCalled
    /\ ~sc_in.obs_time.is_none
    /\ "datetime" \notin DOMAIN ScData
    /\ \A k \in SeventeenKeys \ {"datetime"} : ~ScLacks(k)
    /\ sc_ret.pos = <<>>

ScValid == \A k \in SeventeenKeys : ~ScLacks(k)

\* the observation time the computation uses
ScTime == IF sc_in.obs_time.is_none THEN ScData["datetime"] ELSE sc_in.obs_time

\* what makes a statement between A and the result raise
ScFails ==
    \/ ScData["sqrta"].val = 0
    \/ ScTime.type # "datetime"
    \/ Abs(ScData["e"].val) > 1000

InSeq(x, q) == \E i \in 1..Len(q) : q[i] = x

NoRepeat(q) == \A i, j \in 1..Len(q) : q[i] = q[j] => i = j

\* C11: after validation, an exception raised by any statement between the
\* computation of A and the assembly of the result reaches the caller as a
\* RuntimeError whose message names gnss_system and sv_id; no statement is
\* run twice and no position is returned; without such an exception the
\* call returns.
SatCoordFailureWrapped ==
    (ScCalled /\ ScValid) =>
        /\ sc_ret.raised \in {"none", "RuntimeError"}
        /\ sc_ret.raised = "RuntimeError" <=> ScFails
        /\ NoRepeat(sc_ret.steps)
        /\ sc_ret.raised = "RuntimeError" =>
               /\ InSeq(sc_in.gnss_system, sc_ret.msg)
               /\ InSeq(sc_in.sv_id, sc_ret.msg)
               /\ sc_ret.pos = <<>> /\ sc_ret.aux = <<>>
               /\ sc_ret.steps # <<>>

\* a call of a valid record with e = 1.5 and a proper observation time has
\* raised after reaching the anomalies
SatCoordDomainErrorSeen ==
    /\ ScCalled /\ ScValid
    /\ ScData["e"].val > 1000 /\ ScData["sqrta"].val # 0
    /\ ScTime.type = "datetime"
    /\ sc_ret.raised = "RuntimeError"
    /\ InSeq("anomalies", sc_ret.steps)

\* C13: satellite_coordinates takes GPS, Galileo, QZSS and BeiDou alone;
\* with any other gnss_system, GLONASS and NavIC included, it raises the
\* ValueError of an unsupported system before sv_id is looked up and runs
\* no step of the pipeline.
SatCoordOnlyFourSystems ==
    (/\ pc = "sc_done"
     /\ sc_in.fn = "satellite_coordinates"
     /\ sc_in.gnss_system \notin {"GPS", "Galileo", "QZSS", "BeiDou"}) =>
        /\ sc_ret.raised = "ValueError"
        /\ sc_ret.steps = <<>>

---------------------------------------------------------------------------
(* Properties of the lookup of sv_id                                       *)

ScUnknown == pc = "sc_done" /\ sc_in.sv_id \notin DOMAIN sc_in.ephem_dict

GloUnknown == pc = "glo_done" /\ glo_in.sv_id \notin DOMAIN glo_in.ephem_dict

ScKeyError ==
    /\ sc_ret.raised = "KeyError"
    /\ sc_ret.steps = <<>> /\ ~sc_ret.warned

\* C12 as stated: an sv_id that is not a key of ephem_dict makes
\* satellite_coordinates and get_sat_pos_bds raise KeyError before any
\* validation or computation, never an undefined result or a RuntimeError,
\* and makes both glonass_satellite_coordinates raise KeyError before any
\* computation.
UnknownSatelliteKeyError ==
    /\ ScUnknown => ScKeyError
    /\ GloUnknown => glo_ret = GloRaised("KeyError")

\* C12 amended: the same for satellite_coordinates called with a
\* gnss_system that has an entry in GNSS_CONSTANTS; with any other
\* gnss_system the ValueError of the unsupported system is raised first.
UnknownSatelliteKeyErrorOfKnownSystem ==
    /\ (ScUnknown /\ sc_in.gnss_system \in GNSS_CONSTANTS) => ScKeyError
    /\ (ScUnknown /\ sc_in.gnss_system \notin GNSS_CONSTANTS) =>
           sc_ret.raised = "ValueError"
    /\ GloUnknown => glo_ret = GloRaised("KeyError")

\* satellite_coordinates was called for GPS with an unknown sv_id beside a
\* record that lacks toe, and raised KeyError
UnknownSatelliteSeen ==
    /\ ScUnknown
    /\ sc_in.fn = "satellite_coordinates" /\ sc_in.gnss_system = "GPS"
    /\ \E id \in DOMAIN sc_in.ephem_dict : "toe" \notin DOMAIN sc_in.ephem_dict[id]
    /\ sc_ret.raised = "KeyError"

---------------------------------------------------------------------------
(* Properties of the fields of a GLONASS record                            *)

GloRaw == glo_in.ephem_dict[glo_in.sv_id]

GloKnown == pc = "glo_done" /\ glo_in.sv_id \in DOMAIN glo_in.ephem_dict

GloLacks(k) == k \notin DOMAIN GloRaw \/ GloRaw[k].is_none

\* the fields named as required: position, velocity and gps_seconds
GloRequired ==
    {"satPosX", "satPosY", "satPosZ", "velX", "velY", "velZ", "gps_seconds"}

\* the record with 0 for each supplied acceleration that is None or absent
GloZeroFilled ==
    [k \in DOMAIN GloRaw \cup {"accelX", "accelY", "accelZ"} |->
        IF k \in {"accelX", "accelY", "accelZ"}
        THEN (IF GloLacks(k) THEN Num(0) ELSE GloRaw[k])
        ELSE GloRaw[k]]

\* C18: both variants accept a record whose accelX, accelY or accelZ is
\* None or absent: the call does not raise and the position is the one of
\* the record with 0 for the missing components.
GlonassNullAccelerationAccepted ==
    (/\ GloKnown
     /\ \A k \in GloRequired \cup {"datetime"} : ~GloLacks(k)) =>
        /\ glo_ret.raised = "none"
        /\ glo_ret.pos =
               (IF glo_in.variant = "pytecgg"
                THEN GloCoordinates(GloFields(GloZeroFilled), glo_in.delta_seconds).pos
                ELSE GloCoordinatesPytecal(GloFields(GloZeroFilled)).pos)

\* C19: a record of a known sv_id that lacks a required field, or holds
\* None for it, is not propagated: the call returns an undefined result
\* (empty arrays) and does not raise, in both variants.
GlonassInvalidRecordUndefined ==
    (GloKnown /\ \E k \in GloRequired : GloLacks(k)) =>
        /\ glo_ret.raised = "none"
        /\ glo_ret.pos = <<>>

---------------------------------------------------------------------------
(* Properties of _compute_time_elapsed                                     *)

\* obs_time - toe in seconds, a naive obs_time read as UTC
TimeD == sc_in.obs_time.val - sc_in.toe

TimeCalled == pc = "time_done" /\ sc_in.obs_time.type = "datetime"

\* C14: _compute_time_elapsed returns d = obs_time - toe when d >= 0 and
\* d + 604800 when d < 0, so the result is not negative when obs_time is at
\* most one week before toe; pytecal reads a naive obs_time as UTC, and
\* pytec does the same arithmetic on an aware obs_time.
TimeElapsedWrapsOnce ==
    (/\ TimeCalled
     /\ sc_in.fn = "_compute_time_elapsed" \/ sc_in.obs_time.aware) =>
        /\ sc_ret.raised = "none"
        /\ TimeD >= 0 => sc_ret.tk = TimeD
        /\ TimeD < 0 => sc_ret.tk = TimeD + 604800
        /\ TimeD >= -604800 => sc_ret.tk >= 0

\* pytecal's function has returned for a naive obs_time less than a week
\* before toe, in a process whose local time is not UTC
TimeElapsedNaiveBeforeToeSeen ==
    /\ TimeCalled
    /\ sc_in.fn = "_compute_time_elapsed"
    /\ ~sc_in.obs_time.aware /\ sc_in.tz # 0
    /\ TimeD < 0 /\ TimeD > -604800
    /\ sc_ret.tk > 0

---------------------------------------------------------------------------
(* Properties of _apply_geo_correction                                     *)

\* floor of the square root of n >= 0 (n < 2^31)
Isqrt31(n) == IsqrtB(n, 0, Min2(n, 46340))

\* the Euclidean norm of a vector of three integers, rounded down
NormOf(P) == Isqrt31(Norm2(P))

\* the rounding of the sines, cosines and products: RelTol parts in 16384
\* of the length and 3 units
NormSlack(r) == RoundDiv(r * RelTol, IntScale) + 3

GeoCalled == pc = "geo_done"

GeoIn == <<sc_in.Xk, sc_in.Yk, sc_in.Zk>>

GeoAngle == RateAngle(sc_in.we, sc_in.tk)

\* C16: _apply_geo_correction preserves the Euclidean norm (up to the
\* rounding of the arithmetic), maps (x, 0, 0) to
\* (x*cos(we*tk), -x*sin(we*tk), 0), maps (1, 0, 0) with we*tk = pi/2 to
\* (0, -1, 0) (to one unit in the last place) and, with tk = 0, leaves
\* (x, 0, 0) unchanged
GeoCorrectionIsRotation ==
    GeoCalled =>
        /\ Abs(NormOf(sc_ret) - NormOf(GeoIn)) <= NormSlack(NormOf(GeoIn))
        /\ (sc_in.Yk = 0 /\ sc_in.Zk = 0 =>
               sc_ret = <<MulI(sc_in.Xk, CosI(GeoAngle)),
                          -MulI(sc_in.Xk, SinI(GeoAngle)), 0>>)
        /\ (GeoIn = <<Scale, 0, 0>> /\ sc_in.we = ConstWe /\ sc_in.tk = 21541 =>
               /\ Abs(sc_ret[1]) <= 1
               /\ Abs(sc_ret[2] + Scale) <= 1
               /\ sc_ret[3] = 0)
        /\ (sc_in.tk = 0 /\ sc_in.Yk = 0 /\ sc_in.Zk = 0 => sc_ret = GeoIn)

\* a vector off the X axis has been rotated by a quarter turn or more
GeoCorrectionOffAxisSeen ==
    /\ GeoCalled
    /\ sc_in.Yk = 26000 /\ sc_in.Zk = 7000 /\ sc_in.Xk = Scale
    /\ sc_in.we = ConstWe /\ sc_in.tk = 21541
    /\ sc_ret[1] > 20000

---------------------------------------------------------------------------
(* Properties of the values returned by satellite_coordinates              *)

\* the call has returned a position
OrbCalled == pc = "sc_done" /\ sc_ret.raised = "none" /\ sc_ret.pos # <<>>

OrbData == sc_in.ephem_dict[sc_in.sv_id]

\* C15: the position returned is the ECEF position of the auxiliary
\* values rotated by the GEO correction when gnss_system is BeiDou and
\* i0 <= 20 degrees (20 degrees included), and the ECEF position itself in
\* every other case: any other system whatever i0 is, BeiDou with i0 > 20
\* degrees; the auxiliary vector is the one computed before the correction
GeoCorrectionOnlyBeiDouLowInclination ==
    OrbCalled =>
        /\ sc_ret.aux = ScAux(OrbData, sc_in.gnss_system, sc_ret.aux[1])
        /\ (sc_in.gnss_system # "BeiDou" => sc_ret.pos = Ecef(sc_ret.aux))
        /\ (sc_in.gnss_system = "BeiDou" /\ OrbData["i0"].val > Deg20 =>
               sc_ret.pos = Ecef(sc_ret.aux))
        /\ (sc_in.gnss_system = "BeiDou" /\ OrbData["i0"].val <= Deg20 =>
               sc_ret.pos = GeoCorrected(Ecef(sc_ret.aux), sc_ret.aux[1], ConstWe))

\* satellite_coordinates has corrected a BeiDou position with i0 of
\* exactly 20 degrees, and the correction has moved it
GeoCorrectionAtBoundarySeen ==
    /\ OrbCalled
    /\ sc_in.fn = "satellite_coordinates"
    /\ sc_in.gnss_system = "BeiDou"
    /\ OrbData["i0"].val = Deg20
    /\ sc_ret.aux[1] = 3600
    /\ sc_ret.pos # Ecef(sc_ret.aux)

\* A * (1 - e), A * (1 + e) with A = sqrta^2
OrbPerigee == OrbA(OrbData) - RoundDiv(OrbA(OrbData) * OrbData["e"].val, 1000)

OrbApogee == OrbA(OrbData) + RoundDiv(OrbA(OrbData) * OrbData["e"].val, 1000)

\* |crc| + |crs|
OrbRadialSwing == Abs(OrbData["crc"].val) + Abs(OrbData["crs"].val)

\* C17: for a valid record with e in [0, 1) the length of the returned
\* position is |rk| (aux element 5), up to the rounding of the arithmetic,
\* with and without the GEO correction, and rk lies between
\* A*(1-e) - (|crc|+|crs|) and A*(1+e) + (|crc|+|crs|)
OrbitRadiusIsRk ==
    OrbCalled /\ OrbData["e"].val >= 0 /\ OrbData["e"].val < 1000 =>
        /\ Abs(NormOf(sc_ret.pos) - Abs(sc_ret.aux[6])) <= NormSlack(Abs(sc_ret.aux[6]))
        /\ sc_ret.aux[6] >= OrbPerigee - OrbRadialSwing
        /\ sc_ret.aux[6] <= OrbApogee + OrbRadialSwing
        /\ NormOf(sc_ret.pos) >= OrbPerigee - OrbRadialSwing - NormSlack(OrbPerigee)
        /\ NormOf(sc_ret.pos) <= OrbApogee + OrbRadialSwing + NormSlack(OrbApogee)

\* an eccentric orbit with radial harmonics, away from perigee, whose
\* position has been through the GEO correction
OrbitEccentricCorrectedSeen ==
    /\ OrbCalled
    /\ sc_in.gnss_system = "BeiDou"
    /\ OrbData["i0"].val = 0
    /\ OrbData["e"].val = 80
    /\ OrbData["crc"].val = 3
    /\ sc_ret.aux[1] = 21541
    /\ sc_ret.aux[6] > OrbA(OrbData)

---------------------------------------------------------------------------
(* Properties of a session                                                 *)

\* what the call returns or raises as the very first call of a process
\* that was given the ephem_dict of the session
FirstCall(c, lat0) ==
    CASE c.fn = "kepler" -> kepler(c.e, c.mk, c.tol)
      [] c.fn = "satellite_coordinates" ->
             satellite_coordinates(SessionEphemDict, c.sv_id, c.gnss_system, None)
      [] c.fn = "glonass_satellite_coordinates" ->
             glonass_satellite_coordinates(SessionEphemDict, c.sv_id, c.delta_seconds)
      [] OTHER ->
             IppReturn(calculate_ipp(c.rec_ecef, c.sat_ecef_array, c.h_ipp, <<>>,
                                     SessionLat0(c, lat0)))

---------------------------------------------------------------------------
(* pytecgg/satellites/ephemeris.py: _parse_time, _greg2gps                 *)

\* a time string is a sequence of tokens: an ISO-8601 datetime (its
\* wall-clock reading in seconds since 1970-01-01 00:00 and the UTC offset
\* it is written with), a blank, the name of a time system, other text
IsoTok(wall, tzoff) == [k |-> "iso", wall |-> wall, tzoff |-> tzoff, name |-> ""]

Blank == [k |-> "blank", wall |-> 0, tzoff |-> 0, name |-> ""]

SysTok(name) == [k |-> "sys", wall |-> 0, tzoff |-> 0, name |-> name]

OtherText == [k |-> "text", wall |-> 0, tzoff |-> 0, name |-> ""]

\* a str and an int argument
Str(toks) == [type |-> "str", toks |-> toks]

IntArg == [type |-> "int", toks |-> <<>>]

\* the places where " <time_system>" occurs in toks
SepAt(toks, time_system) ==
    {i \in 1..(Len(toks) - 1) :
        toks[i] = Blank /\ toks[i + 1] = SysTok(time_system)}

\* time_str.split(" <time_system>")[0]: the text before the first occurrence
SplitFirst(toks, time_system) ==
    IF SepAt(toks, time_system) = {} THEN toks
    ELSE SubSeq(toks, 1,
                (CHOOSE i \in SepAt(toks, time_system) :
                    \A j \in SepAt(toks, time_system) : i <= j) - 1)

\* str.strip(): leading and trailing blanks removed
Strip(toks) ==
    LET inked == {i \in 1..Len(toks) : toks[i] # Blank}
    IN  IF inked = {} THEN <<>>
        ELSE SubSeq(toks, CHOOSE i \in inked : \A j \in inked : i <= j,
                          CHOOSE i \in inked : \A j \in inked : i >= j)

\* datetime.fromisoformat succeeds on an ISO-8601 datetime and nothing else
IsIsoFormat(toks) == Len(toks) = 1 /\ toks[1].k = "iso"

ParseReturn(dt) == [raised |-> "none", value |-> dt]

ParseRaise(e) == [raised |-> e, value |-> None]

\* dt + time_offset, the offset applied with the wrong sign
OffsetAdded(dt, time_offset) == IF time_offset # 0 THEN dt + time_offset ELSE dt

\* lines 30-31: if time_offset: dt = dt - time_offset
OffsetApplied(dt, time_offset) == IF time_offset # 0 THEN dt - time_offset ELSE dt

\* lines 21-39; dt.replace(tzinfo=timezone.utc) keeps the wall-clock reading
\* and drops the offset the string was written with
_parse_time(time_str, time_system, time_offset) ==
    IF time_str.type = "str"
    THEN LET clean_str == Strip(SplitFirst(time_str.toks, time_system))
         IN  IF IsIsoFormat(clean_str)
             THEN ParseReturn(DateTime(OffsetApplied(clean_str[1].wall, time_offset),
                                       TRUE))
             ELSE ParseRaise("ValueError")
    ELSE ParseRaise("TypeError")

\* 1980-01-06 00:00:00 UTC, in seconds since 1970-01-01
GpsEpoch == 315964800

\* delta.days // 7 with the quotient rounded towards zero
WeeksTruncated(days) == IF days >= 0 THEN days \div 7 ELSE -((-days) \div 7)

\* delta.days // 7
WeeksFloor(days) == days \div 7

\* lines 52-57, for dt at second val and microsecond us: timedelta keeps
\* 0 <= seconds < 86400 and 0 <= microseconds < 10^6, days taking the sign;
\* the seconds returned are sec + us / 10^6
_greg2gps(dt, us) ==
    LET days == (dt.val - GpsEpoch) \div 86400
        seconds == (dt.val - GpsEpoch) % 86400
    IN  [week |-> WeeksFloor(days),
         sec |-> (days % 7) * 86400 + seconds,
         us |-> us]

\* lines 87-98 for one row: the fields of the record that come from the
\* epoch of the row, params being (time_system, time_offset)
prepare_ephemeris(epoch, time_system, time_offset) ==
    LET ephe_time == _parse_time(epoch, time_system, time_offset)
    IN  IF ephe_time.raised # "none"
        THEN [raised |-> ephe_time.raised, datetime |-> None, gps_week |-> 0,
              gps_seconds |-> 0]
        ELSE [raised |-> "none", datetime |-> ephe_time.value,
              gps_week |-> _greg2gps(ephe_time.value, 0).week,
              gps_seconds |-> _greg2gps(ephe_time.value, 0).sec]

\* the longest time string, in tokens
MaxTokens == 4

\* 2023-09-01T12:30:00 as written, and the same with +02:00 appended
IsoTokens == {IsoTok(1693571400, 0), IsoTok(1693571400, 7200)}

TimeTokens == IsoTokens \cup {Blank, SysTok("GPST"), SysTok("BDT"), OtherText}

TimeStrings == UNION {[1..n -> TimeTokens] : n \in 0..MaxTokens}

\* time offsets, s: none, 18 s, the 8 hours of CONSTELLATION_PARAMS["BeiDou"]
TimeOffsets == {0, 18, 28800}

ParseInputs ==
    {[fn |-> "_parse_time", time_str |-> Str(s), time_system |-> ts,
      time_offset |-> off] :
        s \in TimeStrings, ts \in {"GPST", "BDT"}, off \in TimeOffsets}
    \cup
    {[fn |-> "_parse_time", time_str |-> IntArg, time_system |-> ts,
      time_offset |-> off] : ts \in {"GPST", "BDT"}, off \in TimeOffsets}

\* UTC datetimes: 2020-01-05 00:00:00, 2023-09-01 12:30:00, the GPS epoch,
\* one second, 12 hours, 6.5 days, one week, 7.5 days and 400 days before
\* it, 6 days 23:59:59 after it
GregSeconds ==
    {1578182400, 1693571400, GpsEpoch, GpsEpoch - 1, GpsEpoch - 43200,
     GpsEpoch - 561600, GpsEpoch - 604800, GpsEpoch - 648000,
     GpsEpoch - 34560000, GpsEpoch + 604799}

GregInputs ==
    {[fn |-> "_greg2gps", dt |-> DateTime(s, TRUE), us |-> u] :
        s \in GregSeconds, u \in {0, 500000, 999999}}

\* epochs of navigation rows: 2023-09-01 00:00:00, 12:30:00 and 23:55:00,
\* 2023-09-03 (a Sunday) 00:00:00 and 07:59:00, 1970-01-04 00:00:00,
\* written bare or with the time system; params of GPS, BeiDou, GLONASS
RowEpochs == {1693526400, 1693571400, 1693612500, 1693699200, 1693727940, 259200}

PrepareInputs ==
    {[fn |-> "prepare_ephemeris", time_str |-> Str(s), time_system |-> p[1],
      time_offset |-> p[2]] :
        s \in UNION {{<<IsoTok(w, 0)>>, <<IsoTok(w, 0), Blank, SysTok(q)>>} :
                        w \in RowEpochs, q \in {"GPST", "BDT", "UTC"}},
        p \in {<<"GPST", 0>>, <<"BDT", 28800>>, <<"UTC", 0>>}}

InitEphemeris ==
    /\ sc_in \in ParseInputs \cup GregInputs \cup PrepareInputs
    /\ pc = "ephemeris_call"
    /\ sc_ret = NoCall
    /\ IdleIpp /\ IdleKepler /\ IdleAnomalies /\ IdleGlonass

\* one call of _parse_time
ParseTime ==
    /\ pc = "ephemeris_call"
    /\ sc_in.fn = "_parse_time"
    /\ sc_ret' = _parse_time(sc_in.time_str, sc_in.time_system, sc_in.time_offset)
    /\ pc' = "parse_done"
    /\ UNCHANGED <<sc_in, ipp_vars, kep_vars, anom_vars, glo_vars>>

\* one call of _greg2gps
Greg2Gps ==
    /\ pc = "ephemeris_call"
    /\ sc_in.fn = "_greg2gps"
    /\ sc_ret' = _greg2gps(sc_in.dt, sc_in.us)
    /\ pc' = "greg_done"
    /\ UNCHANGED <<sc_in, ipp_vars, kep_vars, anom_vars, glo_vars>>

\* the body of the loop of prepare_ephemeris for one satellite
PrepareEphemeris ==
    /\ pc = "ephemeris_call"
    /\ sc_in.fn = "prepare_ephemeris"
    /\ sc_ret' = prepare_ephemeris(sc_in.time_str, sc_in.time_system,
                                   sc_in.time_offset)
    /\ pc' = "prepare_done"
    /\ UNCHANGED <<sc_in, ipp_vars, kep_vars, anom_vars, glo_vars>>

NextEphemeris == ParseTime \/ Greg2Gps \/ PrepareEphemeris

SpecEphemeris == InitEphemeris /\ [][NextEphemeris]_vars

---------------------------------------------------------------------------
(* Properties of _parse_time and _greg2gps                                 *)

\* the string is an ISO-8601 datetime, alone or followed by " <time_system>"
WellFormedTime(toks, time_system) ==
    /\ Len(toks) \in {1, 3}
    /\ toks[1].k = "iso"
    /\ Len(toks) = 3 => (toks[2] = Blank /\ toks[3] = SysTok(time_system))

\* C21: _parse_time, given '<ISO-8601 datetime> <time_system>' or the bare
\* ISO datetime, returns the parsed wall-clock time minus time_offset as a
\* timezone-aware datetime in UTC; with a zero offset the parsed time is
\* returned unchanged
ParseTimeShiftsToUtc ==
    (/\ pc = "parse_done"
     /\ sc_in.time_str.type = "str"
     /\ WellFormedTime(sc_in.time_str.toks, sc_in.time_system))
    => /\ sc_ret.raised = "none"
       /\ sc_ret.value.type = "datetime"
       /\ sc_ret.value.aware
       /\ sc_ret.value.val = sc_in.time_str.toks[1].wall - sc_in.time_offset

\* '2023-09-01T12:30:00 GPST' with an offset of 18 s was parsed and gave
\* 2023-09-01 12:29:42 UTC
ParseTimeGpstExampleSeen ==
    /\ pc = "parse_done"
    /\ sc_in.time_str = Str(<<IsoTok(1693571400, 0), Blank, SysTok("GPST")>>)
    /\ sc_in.time_system = "GPST"
    /\ sc_in.time_offset = 18
    /\ sc_ret = ParseReturn(DateTime(1693571382, TRUE))

\* the string with surrounding blanks and a final " <time_system>" removed
SuffixRemoved(toks, time_system) ==
    LET s == Strip(toks)
    IN  IF Len(s) >= 2 /\ s[Len(s) - 1] = Blank /\ s[Len(s)] = SysTok(time_system)
        THEN Strip(SubSeq(s, 1, Len(s) - 2))
        ELSE s

\* C22: _parse_time raises ValueError for every string that is not an
\* ISO-8601 datetime once the ' <time_system>' suffix is removed (a
\* well-formed time with the suffix of another time system included) and
\* TypeError for every argument that is not a string; it returns no
\* datetime in those cases
ParseTimeRejectsMalformed ==
    pc = "parse_done" =>
        /\ sc_in.time_str.type # "str" => sc_ret = ParseRaise("TypeError")
        /\ (/\ sc_in.time_str.type = "str"
            /\ ~IsIsoFormat(SuffixRemoved(sc_in.time_str.toks, sc_in.time_system)))
           => sc_ret = ParseRaise("ValueError")

\* days since the GPS epoch, whole, rounded down
DaysSinceEpoch == (sc_in.dt.val - GpsEpoch) \div 86400

\* C23: _greg2gps(dt) of a UTC datetime returns (week, seconds) with
\* week = floor(whole days since 1980-01-06T00:00:00Z / 7),
\* 0 <= seconds < 604800 and week * 604800 + seconds the seconds elapsed
\* since that epoch, before the epoch too; 2020-01-05T00:00:00Z gives
\* (2087, 0.0)
GregToGpsWeekAndSeconds ==
    pc = "greg_done" =>
        /\ 7 * sc_ret.week <= DaysSinceEpoch
        /\ DaysSinceEpoch < 7 * sc_ret.week + 7
        /\ 0 <= sc_ret.sec /\ sc_ret.sec < 604800
        /\ 0 <= sc_ret.us /\ sc_ret.us < 1000000
        /\ sc_ret.week * 604800 + sc_ret.sec = sc_in.dt.val - GpsEpoch
        /\ sc_ret.us = sc_in.us
        /\ (sc_in.dt.val = 1578182400 /\ sc_in.us = 0)
              => sc_ret = [week |-> 2087, sec |-> 0, us |-> 0]

\* a datetime half a second before the epoch was converted: week -1,
\* 604799.5 s
GregBeforeEpochSeen ==
    /\ pc = "greg_done"
    /\ sc_in.dt.val = GpsEpoch - 1 /\ sc_in.us = 500000
    /\ sc_ret = [week |-> -1, sec |-> 604799, us |-> 500000]

\* C26: for a record from prepare_ephemeris the eph_time that
\* glonass_satellite_coordinates derives from gps_seconds
\* (fromtimestamp(gps_seconds, utc), its date and time of day) is the
\* instant of the record's datetime field
PreparedEpochIsDatetime ==
    (pc = "prepare_done" /\ sc_ret.raised = "none") =>
        /\ DateOf(sc_ret.gps_seconds) = DateOf(sc_ret.datetime.val)
        /\ TimeOfDay(sc_ret.gps_seconds) = TimeOfDay(sc_ret.datetime.val)

---------------------------------------------------------------------------
(* Properties of the scalar calculate_ipp                                  *)

\* C24: the scalar calculate_ipp returns undefined geometry (None four
\* times) whenever the segment from receiver to satellite does not meet
\* the shell, the discriminant being negative or no root lying in [0, 1];
\* it never reports the geodetic coordinates of (0, 0, 0), of the satellite
\* itself (t clamped to 1) or of a point behind the receiver (t < 0)
IppScalarNoCrossingIsNone ==
    (/\ pc = "ipp1_done"
     /\ RowFinite(1)
     /\ ~(CoefA(1) > 0 /\ RootIn01(CoefA(1), CoefB(1), CoefC)))
    => ipp_ret.none

---------------------------------------------------------------------------
(* Properties of the GLONASS rotation angle and epoch                      *)

\* the signed elapsed time that the integrated span t_span stands for
GloSpanDt == IF glo_ret.t_span[1] = 0 THEN glo_ret.t_span[2] ELSE glo_ret.t_span[1]

\* C25: in both variants the angle of the rotation back to ECEF is
\* theta_ge + we * dt, dt being the signed elapsed time of the integrated
\* span, and aux["integration_time"] is that dt, also when the epoch and
\* the observation fall on different calendar days
GlonassRotationMatchesSpan ==
    GloReturned =>
        /\ glo_ret.theta_gi = glo_ret.theta_ge + WeAngle(GloSpanDt)
        /\ glo_ret.integration_time = GloSpanDt

\* the date [year, month, day] passed to get_gmst, as its ordinal: that of
\* eph_time in pytecgg (line 104), of obs_time in pytecal (line 104)
GloYmd ==
    IF glo_in.variant = "pytecgg" THEN DateOf(GloData.gps_seconds)
    ELSE DateOf(GloData.datetime)

\* C27: the Julian Date that get_gmst computes for [year, month, day] is
\* the Julian Date of 00:00 UT of that date (2451544.5 for 2000-01-01,
\* whose ordinal is 730120), and the GMST returned is in [0, 2*pi)
GmstJulianDateOfMidnight ==
    GloReturned =>
        /\ JulianDate2(GloYmd) = 4903089 + 2 * (GloYmd - 730120)
        /\ 0 <= get_gmst(GloYmd) /\ get_gmst(GloYmd) < TwoPiF

---------------------------------------------------------------------------
(* Properties of the vectorised calculate_ipp: horizon, all-or-nothing     *)

\* entry i is finite and the receiver is strictly inside the shell sphere,
\* away from the Earth's centre
InsideShell(i) ==
    RowFinite(i) /\ CoefC < 0 /\ Dot(ipp_in.rec_ecef, ipp_in.rec_ecef) > 0

\* the line of sight of entry i leaves the receiver upwards
Upwards(i) == Dot(Diff(SatAt(i), ipp_in.rec_ecef), ipp_in.rec_ecef) >= 0

IppAllOrNothing ==
    pc = "ipp_done" =>
        /\ Len(ipp_ret.lat_ipp) = Len(ipp_in.sat_ecef_array)
        /\ Len(ipp_ret.lon_ipp) = Len(ipp_in.sat_ecef_array)
        /\ Len(ipp_ret.azi) = Len(ipp_in.sat_ecef_array)
        /\ Len(ipp_ret.ele) = Len(ipp_in.sat_ecef_array)
        /\ \A i \in IppRows :
              /\ \/ EntryUndefined(i)
                 \/ /\ ~IsNaN(ipp_ret.lat_ipp[i]) /\ ~IsNaN(ipp_ret.lon_ipp[i])
                    /\ ~IsNaN(ipp_ret.azi[i]) /\ ~IsNaN(ipp_ret.ele[i])
              /\ ~IsNaN(ipp_ret.lat_ipp[i]) =>
                    /\ EntryPierce(i)
                    /\ ipp_ret.lat_ipp[i] = AloneRet(i).lat_ipp[1]
                    /\ ipp_ret.lon_ipp[i] = AloneRet(i).lon_ipp[1]

---------------------------------------------------------------------------
(* Concurrent calls on a shared ephem_dict and satellite array             *)

\* the workers, one call each
Workers == {"w1", "w2"}

\* the satellite array shared by the calls of calculate_ipp: a satellite
\* beyond the shell, one inside it, one off to the side below, one with NaN
ConcSatArray == <<Row(6, 6, 3), Row(2, 0, 0), Row(9, 0, -8), <<NaN, F(0), NaN>>>>

ConcCalls ==
    {[fn |-> "satellite_coordinates", sv_id |-> sv, gnss_system |-> g] :
        sv \in {"G01", "G02", "G03", "G09"}, g \in {"GPS", "SBAS"}}
    \cup
    {[fn |-> "glonass_satellite_coordinates", sv_id |-> sv, delta_seconds |-> 300] :
        sv \in {"R01", "R02"}}
    \cup
    {[fn |-> "calculate_ipp", rec_ecef |-> r, h_ipp |-> 1] :
        r \in {<<0, 0, 6>>, <<4, 4, 2>>, <<0, 0, -10>>}}
    \cup
    {[fn |-> "kepler", e |-> 500, mk |-> 1052, tol |-> 1],
     [fn |-> "kepler", e |-> 10, mk |-> -2630, tol |-> 1]}

\* an array in which the call has overwritten the rows it masked out
SatArrayMasked(sat_ecef_array, mask) ==
    [i \in 1..Len(sat_ecef_array) |->
        IF i <= Len(mask) /\ ~mask[i] THEN <<NaN, NaN, NaN>> ELSE sat_ecef_array[i]]

\* calculate_ipp reads sat_ecef_array (line 32 takes views of its columns)
\* and stores its results in the arrays of lines 46-49 only
SatArrayAfter(sat_ecef_array, mask) == sat_ecef_array

\* what the call returns or raises when it runs on the objects as they are
RunOn(c, ephem_dict, sat_ecef_array) ==
    CASE c.fn = "kepler" -> kepler(c.e, c.mk, c.tol)
      [] c.fn = "satellite_coordinates" ->
             satellite_coordinates(ephem_dict, c.sv_id, c.gnss_system, None)
      [] c.fn = "glonass_satellite_coordinates" ->
             glonass_satellite_coordinates(ephem_dict, c.sv_id, c.delta_seconds)
      [] OTHER -> calculate_ipp(c.rec_ecef, sat_ecef_array, c.h_ipp, <<>>, F(0))

\* the call is over within its first statements: the checks of gnss_system,
\* sv_id and the record (positions.py, lines 103-139), the reading of the
\* record (glonass.py, lines 82-102), the return of ipp.py line 52
EndsEarly(c, r) ==
    CASE c.fn = "kepler" -> FALSE
      [] c.fn = "satellite_coordinates" ->
             r.raised \in {"ValueError", "KeyError"} \/ OutcomeOf(r) = "undefined"
      [] c.fn = "glonass_satellite_coordinates" -> r.raised # "none"
      [] OTHER -> ~(\E i \in 1..Len(r.mask) : r.mask[i])

\* the call never returns (C4)
Hangs(c, r) == c.fn = "kepler" /\ r.hang

\* the value handed back to the caller
ResultOf(c, r) == IF c.fn = "calculate_ipp" THEN IppReturn(r) ELSE r

\* the shared objects after a step of the call c that came to r
SharedAfter(c, r) ==
    [sc_in EXCEPT
        !.ephem_dict =
            IF c.fn \in {"satellite_coordinates", "glonass_satellite_coordinates"}
            THEN EphemDictAfter(@, c, r.raised # "none") ELSE @,
        !.sat_ecef_array =
            IF c.fn = "calculate_ipp" THEN SatArrayAfter(@, r.mask) ELSE @,
        !.registry =
            IF c.fn = "satellite_coordinates" /\ c.sv_id \in DOMAIN sc_in.ephem_dict
            THEN RegistryAfter(@, sc_in.ephem_dict[c.sv_id], r.warned) ELSE @]

InitConcurrent ==
    /\ pc = "concurrent"
    /\ sc_in \in {[fn |-> "concurrent", constants |-> GNSS_CONSTANTS,
                   ephem_dict |-> SessionEphemDict, sat_ecef_array |-> ConcSatArray,
                   registry |-> {}, trace |-> <<>>,
                   workers |-> [w \in Workers |->
                                   [call |-> cs[w], at |-> "ready", result |-> NoCall]]] :
                      cs \in [Workers -> ConcCalls]}
    /\ sc_ret = NoCall
    /\ IdleIpp /\ IdleKepler /\ IdleAnomalies /\ IdleGlonass

\* a worker enters its call and runs its first statements on the shared
\* objects as they are now
ConcBegin ==
    /\ pc = "concurrent"
    /\ \E w \in Workers :
          /\ sc_in.workers[w].at = "ready"
          /\ LET c == sc_in.workers[w].call
                 r == RunOn(c, sc_in.ephem_dict, sc_in.sat_ecef_array)
             IN  sc_in' =
                    [SharedAfter(c, r) EXCEPT
                        !.trace = Append(@, w),
                        !.workers[w] =
                            IF EndsEarly(c, r)
                            THEN [@ EXCEPT !.at = "done", !.result = ResultOf(c, r)]
                            ELSE [@ EXCEPT !.at = "running"]]
    /\ UNCHANGED <<pc, sc_ret, ipp_vars, kep_vars, anom_vars, glo_vars>>

\* a worker runs the rest of its call, on the shared objects as they are
\* now, and returns or raises
ConcFinish ==
    /\ pc = "concurrent"
    /\ \E w \in Workers :
          /\ sc_in.workers[w].at = "running"
          /\ LET c == sc_in.workers[w].call
                 r == RunOn(c, sc_in.ephem_dict, sc_in.sat_ecef_array)
             IN  /\ ~Hangs(c, r)
                 /\ sc_in' =
                       [SharedAfter(c, r) EXCEPT
                           !.trace = Append(@, w),
                           !.workers[w] =
                               [@ EXCEPT !.at = "done", !.result = ResultOf(c, r)]]
    /\ UNCHANGED <<pc, sc_ret, ipp_vars, kep_vars, anom_vars, glo_vars>>

NextConcurrent == ConcBegin \/ ConcFinish

SpecConcurrent == InitConcurrent /\ [][NextConcurrent]_vars

\* what the call returns or raises when it is the only call made
Alone(c) == ResultOf(c, RunOn(c, SessionEphemDict, ConcSatArray))

====
